---------------------------- MODULE Spec2Model ----------------------------
(***************************************************************************)
(* Model of the pdfcraft document processors: one run of process() of one  *)
(* processor, as a state machine whose steps are the stretches of code     *)
(* between two awaits.  A state is "the run is suspended on the awaited    *)
(* collaborator call named by pc"; an action completes that call (with     *)
(* success or failure) and runs the synchronous code up to the next await  *)
(* or to the return.  cancel() may be called while the run is suspended.   *)
(***************************************************************************)
EXTENDS Integers, Sequences, FiniteSets, TLC

\* ------------------------------------------------------------------ bounds
MaxPages == 2
MaxSel == 2
MaxRanges == 2
MaxFiles == 2
MaxFields == 2

VARIABLES
    proc,             \* which processor's process() is running
    nFiles,           \* input.files.length
    typeOk,           \* the file type checks of the input files pass
    totalPages,       \* page count of the source document
    pagesOpt,         \* options.pages: [all |-> BOOLEAN, list |-> sequence of page numbers]
    ranges,           \* options.ranges (split), a sequence of [start, end]
    fields,           \* options.fields (form creator), a sequence of page numbers
    outputFormat,     \* options.outputFormat
    cancelled,        \* BasePDFProcessor.cancelled
    pc,               \* the await the run is suspended on, "start" or "done"
    inflight,         \* collaborator calls issued and not yet settled
    calls,            \* every collaborator call issued so far, in order
    reports,          \* the percentages passed to updateProgress, in order
    i,                \* loop index of the item loop
    sel,              \* the resolved page list (pagesToOCR / pagesToProcess)
    tesseractWorker,  \* OCRProcessor.tesseractWorker
    sess,             \* state of the recognition session
    textResults,      \* OCR: textResults
    units,            \* units of work started (page, range, image, field), in order
    copied,           \* split: the index lists passed to copyPages
    applied,          \* the pages (fields) the effect was applied to, in order
    validationError,  \* outcome of the page (range) validation, Unset before it ran
    blobs,            \* split: outputBlobs, each the page indices of one saved document
    outputs,          \* the documents carried by the returned outcome
    filenames,        \* split: outputFilenames
    result,           \* outcome of the run: "none" while running
    message,          \* message of an error outcome
    cancelSeenAt,     \* history: Len(units) when a checkpoint found the flag set, else -1
    data,             \* recolour pass: imageData.data, the RGBA bytes of the canvas
    orig,             \* history: data as getImageData returned it
    mode,             \* recolour pass: textOptions.mode
    threshold,        \* recolour pass: textOptions.threshold
    color,            \* recolour pass: the bytes stored for r * 255, g * 255, b * 255
    j,                \* recolour pass: index of the pixel loop
    written,          \* history: the pixel offsets the pass has written to
    once,             \* history: <<data>> as the first pass left it, <<>> during it
    run,              \* two runs on one OCRProcessor: the position and history of each
    fn,               \* helper function called on its own: its name, "none" if none
    args,             \* the arguments of that call
    ret               \* the locals and the return value of that call

inputs == <<proc, nFiles, typeOk, totalPages, pagesOpt, ranges, fields, outputFormat>>
ctl == <<pc, inflight, calls, result, message, cancelSeenAt>>
ocr == <<tesseractWorker, sess, textResults>>
work == <<i, sel, units, copied, applied, blobs, outputs, filenames, validationError>>
recolor == <<data, orig, mode, threshold, color, j, written, once>>
helper == <<fn, args, ret>>
aux == <<recolor, run, helper>>
job == <<inputs, cancelled, ctl, reports, ocr, work>>
vars == <<job, aux>>

Null == "null"
NoMsg == [text |-> "", range |-> 0]
Unset == [text |-> "unset", range |-> 0]
Msg(t) == [text |-> t, range |-> 0]

\* ---------------------------------------------------------------- helpers
\* A percentage n/d, kept exact.
Frac(n, d) == [n |-> n, d |-> d]
Pct(p) == Frac(p, 1)
Leq(a, b) == a.n * b.d <= b.n * a.d

Range1(n) == [k \in 1..n |-> k]
Count(s, x) == Cardinality({k \in 1..Len(s) : s[k] = x})

RECURSIVE SeqsUpTo(_, _)
SeqsUpTo(S, n) ==
    IF n = 0 THEN {<<>>}
    ELSE LET shorter == SeqsUpTo(S, n - 1)
         IN shorter \cup {Append(s, x) : s \in {t \in shorter : Len(t) = n - 1}, x \in S}

\* ------------------------------------------------ BasePDFProcessor (base)
\* reset(): the progress of the run starts empty.
reset == <<>>
\* updateProgress(p): report p.
updateProgress(log, p) == Append(log, p)
\* checkCancelled(): the flag as it is now.
checkCancelled == cancelled

\* Suspend on the collaborator call `call`.
Await(call, next) ==
    /\ pc' = next
    /\ inflight' = {call}
    /\ calls' = Append(calls, call)
    /\ UNCHANGED <<result, message, cancelSeenAt>>

\* Continue with synchronous code at `next` (no call pending).
Goto(next) ==
    /\ pc' = next
    /\ inflight' = {}
    /\ UNCHANGED <<calls, result, message, cancelSeenAt>>

\* createErrorOutput / createSuccessOutput: the run returns.
Return(code, msg) ==
    /\ pc' = "done"
    /\ inflight' = {}
    /\ result' = code
    /\ message' = msg
    /\ UNCHANGED <<calls, cancelSeenAt>>

\* A checkpoint found the flag set and the run returns at once.
ReturnCancelled ==
    /\ pc' = "done"
    /\ inflight' = {}
    /\ result' = "PROCESSING_CANCELLED"
    /\ message' = Msg("Processing was cancelled.")
    /\ cancelSeenAt' = Len(units)
    /\ UNCHANGED calls

\* The promise of process() rejects: an exception leaves process().
Throw ==
    /\ pc' = "done"
    /\ inflight' = {}
    /\ result' = "THROWN"
    /\ message' = NoMsg
    /\ UNCHANGED <<calls, cancelSeenAt>>

\* cancel(), called from outside while the run is suspended.
Cancel ==
    /\ pc \notin {"start", "done"}
    /\ inflight # {}
    /\ ~cancelled
    /\ cancelled' = TRUE
    /\ UNCHANGED <<aux, inputs, ctl, reports, ocr, work>>


\* ================================================================ OCR
\* pagesToOCR: the explicit list filtered to 1..totalPages, or all pages.
PagesToOCR(list, T) ==
    IF Len(list) > 0
    THEN SelectSeq(list, LAMBDA p : p >= 1 /\ p <= T)
    ELSE Range1(T)

\* 25 + i * (70 / pagesToOCR.length), i counted from 0.
OCRPageProgress(k, n) == Frac(25 * n + 70 * k, n)

PagesOf(tr) == [k \in 1..Len(tr) |-> tr[k].page]

\* The outer catch of process(): terminateTesseract(), then PROCESSING_FAILED.
OCRCatch ==
    IF tesseractWorker # Null
    THEN Await("terminate", "catchTerminate")
    ELSE Return("PROCESSING_FAILED", Msg("Failed to perform OCR on PDF."))

\* Mutant of OCRPageCatch: the page's failure reaches the outer catch.
OCRPageCatchPropagates(pageNum) ==
    /\ OCRCatch
    /\ UNCHANGED <<textResults, i>>

\* The catch inside the page loop: the page's entry is an error marker and
\* the loop goes on with the next page.
OCRPageCatch(pageNum) ==
    /\ textResults' = Append(textResults, [page |-> pageNum, kind |-> "error"])
    /\ i' = i + 1
    /\ Goto("loop")

\* The field after `await this.tesseractWorker.terminate()` settled.
WorkerAfterTerminate(w, ok) == IF ok THEN Null ELSE w
SessAfterTerminate(s, ok) == IF ok THEN "Terminated" ELSE s

\* Mutant of OCRGenerate: 100 is reported before the searchable PDF is made.
OCRGenerateReportsEarly ==
    IF outputFormat = "text"
    THEN /\ reports' = updateProgress(updateProgress(reports, Pct(95)), Pct(100))
         /\ outputs' = Append(outputs, PagesOf(textResults))
         /\ Return("SUCCESS", NoMsg)
    ELSE /\ reports' = updateProgress(updateProgress(reports, Pct(95)), Pct(100))
         /\ outputs' = outputs
         /\ Await("createSearchablePDF", "searchable")

\* Output generation after the loop (progress 95, blob or searchable PDF).
OCRGenerate ==
    IF outputFormat = "text"
    THEN /\ reports' = updateProgress(updateProgress(reports, Pct(95)), Pct(100))
         /\ outputs' = Append(outputs, PagesOf(textResults))
         /\ Return("SUCCESS", NoMsg)
    ELSE /\ reports' = updateProgress(reports, Pct(95))
         /\ outputs' = outputs
         /\ Await("createSearchablePDF", "searchable")

\* Mutant of OCRStart: progress is reported before the input is validated.
OCRStartReportsFirst ==
    /\ proc = "ocr" /\ pc = "start"
    /\ reports' = updateProgress(reset, Pct(5))
    /\ IF nFiles # 1
       THEN Return("INVALID_OPTIONS", Msg("Please provide exactly one PDF file."))
       ELSE IF ~typeOk
       THEN Return("FILE_TYPE_INVALID", Msg("Invalid file type. Please upload a PDF file."))
       ELSE Await("loadPdfjs", "loadPdfjs")
    /\ UNCHANGED <<aux, inputs, cancelled, ocr, work>>

OCRStart ==
    /\ proc = "ocr" /\ pc = "start"
    /\ IF nFiles # 1
       THEN /\ Return("INVALID_OPTIONS", Msg("Please provide exactly one PDF file."))
            /\ reports' = reset
       ELSE IF ~typeOk
       THEN /\ Return("FILE_TYPE_INVALID", Msg("Invalid file type. Please upload a PDF file."))
            /\ reports' = reset
       ELSE /\ reports' = updateProgress(reset, Pct(5))
            /\ Await("loadPdfjs", "loadPdfjs")
    /\ UNCHANGED <<aux, inputs, cancelled, ocr, work>>

\* Mutant of OCRLoadPdfjsDone: no checkpoint before the engine is started.
OCRLoadPdfjsDoneNoCheckpoint(ok) ==
    /\ proc = "ocr" /\ pc = "loadPdfjs"
    /\ IF ~ok
       THEN OCRCatch /\ UNCHANGED reports
       ELSE /\ reports' = updateProgress(reports, Pct(10))
            /\ Await("createWorker", "createWorker")
    /\ UNCHANGED <<aux, inputs, cancelled, ocr, work>>

OCRLoadPdfjsDone(ok) ==
    /\ proc = "ocr" /\ pc = "loadPdfjs"
    /\ IF ~ok
       THEN OCRCatch /\ UNCHANGED reports
       ELSE IF checkCancelled
       THEN ReturnCancelled /\ UNCHANGED reports
       ELSE /\ reports' = updateProgress(reports, Pct(10))
            /\ Await("createWorker", "createWorker")
    /\ UNCHANGED <<aux, inputs, cancelled, ocr, work>>

\* initializeTesseract settles; then the document load is started.
OCRInitDone(ok) ==
    /\ proc = "ocr" /\ pc = "createWorker"
    /\ IF ~ok
       THEN OCRCatch /\ UNCHANGED <<reports, tesseractWorker, sess>>
       ELSE /\ tesseractWorker' = "worker"
            /\ sess' = "Ready"
            /\ reports' = updateProgress(reports, Pct(20))
            /\ Await("getDocument", "getDocument")
    /\ UNCHANGED <<aux, inputs, cancelled, textResults, work>>

OCRGetDocumentDone(ok) ==
    /\ proc = "ocr" /\ pc = "getDocument"
    /\ IF ~ok
       THEN OCRCatch /\ UNCHANGED <<reports, sel, validationError>>
       ELSE /\ sel' = PagesToOCR(pagesOpt.list, totalPages)
            /\ IF Len(sel') = 0
               THEN /\ UNCHANGED reports
                    /\ validationError' = Msg("No valid pages to OCR.")
                    /\ IF tesseractWorker # Null
                       THEN Await("terminate", "termNoPages")
                       ELSE Return("INVALID_PAGE_RANGE", Msg("No valid pages to OCR."))
               ELSE /\ reports' = updateProgress(reports, Pct(25))
                    /\ validationError' = NoMsg
                    /\ Goto("loop")
    /\ UNCHANGED <<aux, inputs, cancelled, ocr, i, units, copied, blobs, outputs, filenames, applied>>

OCRTermNoPagesDone(ok) ==
    /\ proc = "ocr" /\ pc = "termNoPages"
    /\ tesseractWorker' = WorkerAfterTerminate(tesseractWorker, ok)
    /\ sess' = SessAfterTerminate(sess, ok)
    /\ IF ok
       THEN Return("INVALID_PAGE_RANGE", Msg("No valid pages to OCR."))
       ELSE OCRCatch
    /\ UNCHANGED <<aux, inputs, cancelled, reports, textResults, work>>

\* Head of the page loop: the checkpoint, the progress report, the start of
\* ocrPage; after the last page, terminateTesseract().
OCRLoop ==
    /\ proc = "ocr" /\ pc = "loop"
    /\ IF i < Len(sel)
       THEN IF checkCancelled
            THEN /\ IF tesseractWorker # Null
                    THEN /\ pc' = "termCancel"
                         /\ inflight' = {"terminate"}
                         /\ calls' = Append(calls, "terminate")
                         /\ cancelSeenAt' = Len(units)
                         /\ UNCHANGED <<result, message>>
                    ELSE ReturnCancelled
                 /\ UNCHANGED <<reports, units, textResults, i, outputs>>
            ELSE /\ reports' = updateProgress(reports, OCRPageProgress(i, Len(sel)))
                 /\ units' = Append(units, sel[i + 1])
                 /\ UNCHANGED outputs
                 /\ IF tesseractWorker = Null
                    THEN OCRPageCatch(sel[i + 1])
                    ELSE Await("render", "render") /\ UNCHANGED <<textResults, i>>
       ELSE /\ UNCHANGED <<units, textResults, i>>
            /\ IF tesseractWorker # Null
               THEN Await("terminate", "termDone") /\ UNCHANGED <<reports, outputs>>
               ELSE OCRGenerate
    /\ UNCHANGED <<aux, inputs, cancelled, tesseractWorker, sess, sel, copied, blobs, filenames, applied, validationError>>

\* getPage and render settle; on success recognize is started.
OCRRenderDone(ok) ==
    /\ proc = "ocr" /\ pc = "render"
    /\ IF ok
       THEN /\ sess' = "Recognizing"
            /\ Await("recognize", "recognize")
            /\ UNCHANGED <<textResults, i>>
       ELSE /\ OCRPageCatch(sel[i + 1])
            /\ UNCHANGED sess
    /\ UNCHANGED <<aux, inputs, cancelled, reports, tesseractWorker, sel, units, copied, blobs, outputs, filenames, applied, validationError>>

OCRRecognizeDone(ok) ==
    /\ proc = "ocr" /\ pc = "recognize"
    /\ sess' = "Ready"
    /\ IF ok
       THEN /\ textResults' = Append(textResults, [page |-> sel[i + 1], kind |-> "text"])
            /\ i' = i + 1
            /\ Goto("loop")
       ELSE OCRPageCatch(sel[i + 1])
    /\ UNCHANGED <<aux, inputs, cancelled, reports, tesseractWorker, sel, units, copied, blobs, outputs, filenames, applied, validationError>>

OCRTermCancelDone(ok) ==
    /\ proc = "ocr" /\ pc = "termCancel"
    /\ tesseractWorker' = WorkerAfterTerminate(tesseractWorker, ok)
    /\ sess' = SessAfterTerminate(sess, ok)
    /\ IF ok
       THEN Return("PROCESSING_CANCELLED", Msg("Processing was cancelled."))
       ELSE OCRCatch
    /\ UNCHANGED <<aux, inputs, cancelled, reports, textResults, work>>

OCRTermDoneDone(ok) ==
    /\ proc = "ocr" /\ pc = "termDone"
    /\ tesseractWorker' = WorkerAfterTerminate(tesseractWorker, ok)
    /\ sess' = SessAfterTerminate(sess, ok)
    /\ IF ok
       THEN OCRGenerate
       ELSE OCRCatch /\ UNCHANGED <<reports, outputs>>
    /\ UNCHANGED <<aux, inputs, cancelled, textResults, i, sel, units, copied, blobs, filenames, applied, validationError>>

OCRSearchableDone(ok) ==
    /\ proc = "ocr" /\ pc = "searchable"
    /\ IF ok
       THEN /\ reports' = updateProgress(reports, Pct(100))
            /\ outputs' = Append(outputs, PagesOf(textResults))
            /\ Return("SUCCESS", NoMsg)
       ELSE OCRCatch /\ UNCHANGED <<reports, outputs>>
    /\ UNCHANGED <<aux, inputs, cancelled, ocr, i, sel, units, copied, blobs, filenames, applied, validationError>>

\* terminateTesseract() inside the outer catch settles.
OCRCatchTerminateDone(ok) ==
    /\ proc = "ocr" /\ pc = "catchTerminate"
    /\ tesseractWorker' = WorkerAfterTerminate(tesseractWorker, ok)
    /\ sess' = SessAfterTerminate(sess, ok)
    /\ IF ok
       THEN Return("PROCESSING_FAILED", Msg("Failed to perform OCR on PDF."))
       ELSE Throw
    /\ UNCHANGED <<aux, inputs, cancelled, reports, textResults, work>>

OCRNext ==
    \/ OCRStart
    \/ \E ok \in BOOLEAN : OCRLoadPdfjsDone(ok)
    \/ \E ok \in BOOLEAN : OCRInitDone(ok)
    \/ \E ok \in BOOLEAN : OCRGetDocumentDone(ok)
    \/ \E ok \in BOOLEAN : OCRTermNoPagesDone(ok)
    \/ OCRLoop
    \/ \E ok \in BOOLEAN : OCRRenderDone(ok)
    \/ \E ok \in BOOLEAN : OCRRecognizeDone(ok)
    \/ \E ok \in BOOLEAN : OCRTermCancelDone(ok)
    \/ \E ok \in BOOLEAN : OCRTermDoneDone(ok)
    \/ \E ok \in BOOLEAN : OCRSearchableDone(ok)
    \/ \E ok \in BOOLEAN : OCRCatchTerminateDone(ok)

\* ============================================================== split
\* validatePageRanges: scan in input order, report the first violation;
\* NoMsg stands for null.
RECURSIVE ValidateFrom(_, _, _)
ValidateFrom(rs, T, k) ==
    IF k > Len(rs) THEN NoMsg
    ELSE IF rs[k].start < 1
    THEN [text |-> "Start page must be at least 1.", range |-> k]
    ELSE IF rs[k].end < rs[k].start
    THEN [text |-> "End page cannot be less than start page.", range |-> k]
    ELSE IF rs[k].end > T
    THEN [text |-> "End page exceeds total pages.", range |-> k]
    ELSE IF rs[k].start > T
    THEN [text |-> "Start page exceeds total pages.", range |-> k]
    ELSE ValidateFrom(rs, T, k + 1)

\* Mutant of validatePageRanges: the message names the 0-based position.
validatePageRangesZeroBased(rs, T) ==
    LET e == ValidateFrom(rs, T, 1)
    IN  IF e = NoMsg THEN e ELSE [e EXCEPT !.range = @ - 1]

\* Mutant of validatePageRanges: only the first range is validated.
validatePageRangesFirstOnly(rs, T) == ValidateFrom(SubSeq(rs, 1, 1), T, 1)

validatePageRanges(rs, T) == ValidateFrom(rs, T, 1)

\* Mutant of PageIndices: the page numbers are not converted to indices.
PageIndicesOneBased(r) ==
    IF r.end < r.start THEN <<>>
    ELSE [k \in 1..(r.end - r.start + 1) |-> r.start + k - 1]

\* Mutant of PageIndices: the loop stops before the range's last page.
PageIndicesEndExclusive(r) ==
    IF r.end <= r.start THEN <<>>
    ELSE [k \in 1..(r.end - r.start) |-> (r.start + k - 1) - 1]

\* The 0-based indices of one range: pageNum - 1 for pageNum = start..end.
PageIndices(r) ==
    IF r.end < r.start THEN <<>>
    ELSE [k \in 1..(r.end - r.start + 1) |-> (r.start + k - 1) - 1]

\* 15 + i * (75 / ranges.length), i counted from 0.
SplitRangeProgress(k, n) == Frac(15 * n + 75 * k, n)

\* File names are sequences of characters; Text gives the string.
RECURSIVE Text(_)
Text(cs) == IF cs = <<>> THEN "" ELSE Head(cs) \o Text(Tail(cs))

\* files[0].name
FileName == <<"r", "e", "p", "o", "r", "t", ".", "p", "d", "f">>

\* String.prototype.lastIndexOf, 0-based, -1 when c does not occur.
lastIndexOf(cs, c) ==
    LET at == {k \in 1..Len(cs) : cs[k] = c}
    IN  IF at = {} THEN -1 ELSE (CHOOSE k \in at : \A m \in at : m <= k) - 1

\* Mutant of getFileNameWithoutExtension: the name is cut at its first dot.
getFileNameUpToFirstDot(filename) ==
    LET at == {k \in 1..Len(filename) : filename[k] = "."}
    IN  IF at = {} THEN filename
        ELSE SubSeq(filename, 1, (CHOOSE k \in at : \A m \in at : k <= m) - 1)

\* filename.slice(0, lastDot), the whole name when it has no dot.
getFileNameWithoutExtension(filename) ==
    LET lastDot == lastIndexOf(filename, ".")
    IN  IF lastDot = -1 THEN filename ELSE SubSeq(filename, 1, lastDot)

\* Mutant of generateSplitFilename: the part index is left out.
generateSplitFilenameNoPart(originalName, range, rangeIndex, totalRanges) ==
    LET baseName == Text(getFileNameWithoutExtension(originalName))
    IN  IF range.start = range.end
        THEN baseName \o "_page_" \o ToString(range.start) \o ".pdf"
        ELSE baseName \o "_pages_" \o ToString(range.start) \o "-"
                 \o ToString(range.end) \o ".pdf"

generateSplitFilename(originalName, range, rangeIndex, totalRanges) ==
    LET baseName == Text(getFileNameWithoutExtension(originalName))
    IN  IF totalRanges = 1
        THEN IF range.start = range.end
             THEN baseName \o "_page_" \o ToString(range.start) \o ".pdf"
             ELSE baseName \o "_pages_" \o ToString(range.start) \o "-"
                      \o ToString(range.end) \o ".pdf"
        ELSE IF range.start = range.end
             THEN baseName \o "_part" \o ToString(rangeIndex) \o "_page_"
                      \o ToString(range.start) \o ".pdf"
             ELSE baseName \o "_part" \o ToString(rangeIndex) \o "_pages_"
                      \o ToString(range.start) \o "-" \o ToString(range.end)
                      \o ".pdf"

\* The outer catch of process().
SplitCatch == Return("PROCESSING_FAILED", Msg("Failed to split PDF file."))

SplitStart ==
    /\ proc = "split" /\ pc = "start"
    /\ IF nFiles # 1
       THEN /\ Return("INVALID_OPTIONS", Msg("Exactly 1 PDF file is required for splitting."))
            /\ reports' = reset
       ELSE IF Len(ranges) = 0
       THEN /\ Return("INVALID_OPTIONS", Msg("At least one page range is required for splitting."))
            /\ reports' = reset
       ELSE /\ reports' = updateProgress(reset, Pct(5))
            /\ Await("loadPdfLib", "loadPdfLib")
    /\ UNCHANGED <<aux, inputs, cancelled, ocr, work>>

SplitLoadLibDone(ok) ==
    /\ proc = "split" /\ pc = "loadPdfLib"
    /\ IF ~ok
       THEN SplitCatch /\ UNCHANGED reports
       ELSE IF checkCancelled
       THEN ReturnCancelled /\ UNCHANGED reports
       ELSE /\ reports' = updateProgress(reports, Pct(10))
            /\ Await("load", "load")
    /\ UNCHANGED <<aux, inputs, cancelled, ocr, work>>

\* PDFDocument.load settles; then validation of all ranges and a checkpoint.
SplitLoadDone(how) ==
    /\ proc = "split" /\ pc = "load"
    /\ IF how = "encrypted"
       THEN Return("PDF_ENCRYPTED", Msg("The PDF file is encrypted."))
            /\ UNCHANGED <<reports, validationError>>
       ELSE IF how = "failed"
       THEN SplitCatch /\ UNCHANGED <<reports, validationError>>
       ELSE /\ reports' = updateProgress(reports, Pct(15))
            /\ validationError' = validatePageRanges(ranges, totalPages)
            /\ IF validationError' # NoMsg
               THEN Return("INVALID_PAGE_RANGE", validationError')
               ELSE IF checkCancelled
               THEN ReturnCancelled
               ELSE Goto("loop")
    /\ UNCHANGED <<aux, inputs, cancelled, ocr, i, sel, units, copied, applied, blobs, outputs, filenames>>

\* Mutant of SplitLoop: the flag is also read after the last range, before
\* the outcome is built.
SplitLoopChecksBeforeFinalize ==
    /\ proc = "split" /\ pc = "loop"
    /\ IF checkCancelled
       THEN ReturnCancelled /\ UNCHANGED <<reports, units, outputs>>
       ELSE IF i < Len(ranges)
       THEN /\ reports' = updateProgress(reports, SplitRangeProgress(i, Len(ranges)))
            /\ units' = Append(units, i + 1)
            /\ Await("create", "create")
            /\ UNCHANGED outputs
       ELSE /\ reports' = updateProgress(updateProgress(reports, Pct(95)), Pct(100))
            /\ outputs' = IF outputFormat = "single" /\ Len(blobs) = 1
                          THEN <<blobs[1]>>
                          ELSE blobs
            /\ Return("SUCCESS", NoMsg)
            /\ UNCHANGED units
    /\ UNCHANGED <<aux, inputs, cancelled, ocr, i, sel, copied, blobs, filenames, applied, validationError>>

\* Head of the range loop; after the last range, the outcome.
SplitLoop ==
    /\ proc = "split" /\ pc = "loop"
    /\ IF i < Len(ranges)
       THEN IF checkCancelled
            THEN ReturnCancelled /\ UNCHANGED <<reports, units, outputs>>
            ELSE /\ reports' = updateProgress(reports, SplitRangeProgress(i, Len(ranges)))
                 /\ units' = Append(units, i + 1)
                 /\ Await("create", "create")
                 /\ UNCHANGED outputs
       ELSE /\ reports' = updateProgress(updateProgress(reports, Pct(95)), Pct(100))
            /\ outputs' = IF outputFormat = "single" /\ Len(blobs) = 1
                          THEN <<blobs[1]>>
                          ELSE blobs
            /\ Return("SUCCESS", NoMsg)
            /\ UNCHANGED units
    /\ UNCHANGED <<aux, inputs, cancelled, ocr, i, sel, copied, blobs, filenames, applied, validationError>>

\* PDFDocument.create settles; the page indices are passed to copyPages.
SplitCreateDone(ok) ==
    /\ proc = "split" /\ pc = "create"
    /\ IF ok
       THEN /\ copied' = Append(copied, PageIndices(ranges[i + 1]))
            /\ Await("copyPages", "copyPages")
       ELSE SplitCatch /\ UNCHANGED copied
    /\ UNCHANGED <<aux, inputs, cancelled, reports, ocr, i, sel, units, blobs, outputs, filenames, applied, validationError>>

\* copyPages settles; the copies are added and the document is saved.
SplitCopyDone(ok) ==
    /\ proc = "split" /\ pc = "copyPages"
    /\ IF ok THEN Await("save", "save") ELSE SplitCatch
    /\ UNCHANGED <<aux, inputs, cancelled, reports, ocr, work>>

SplitSaveDone(ok) ==
    /\ proc = "split" /\ pc = "save"
    /\ IF ok
       THEN /\ blobs' = Append(blobs, copied[Len(copied)])
            /\ filenames' = Append(filenames,
                   generateSplitFilename(FileName, ranges[i + 1], i + 1, Len(ranges)))
            /\ i' = i + 1
            /\ Goto("loop")
       ELSE SplitCatch /\ UNCHANGED <<blobs, filenames, i>>
    /\ UNCHANGED <<aux, inputs, cancelled, reports, ocr, sel, units, copied, outputs, applied, validationError>>

SplitNext ==
    \/ SplitStart
    \/ \E ok \in BOOLEAN : SplitLoadLibDone(ok)
    \/ \E how \in {"ok", "encrypted", "failed"} : SplitLoadDone(how)
    \/ SplitLoop
    \/ \E ok \in BOOLEAN : SplitCreateDone(ok)
    \/ \E ok \in BOOLEAN : SplitCopyDone(ok)
    \/ \E ok \in BOOLEAN : SplitSaveDone(ok)

\* =================================================== background colour
splitOnly == <<copied, blobs, filenames>>

Includes(s, x) == \E k \in 1..Len(s) : s[k] = x

\* pagesToProcess of the processors that work on 0-based indices:
\* all indices, or each listed number minus one.
PagesToProcess(opt, T) ==
    IF opt.all
    THEN [k \in 1..T |-> k - 1]
    ELSE [k \in 1..Len(opt.list) |-> opt.list[k] - 1]

\* The document model has a page of index idx (getPage throws otherwise).
PageExists(idx, T) == idx >= 0 /\ idx < T

\* Mutant of BgPageProgress: the loop is given 60 points instead of 50.
BgPageProgressTooWide(k, n) == Frac(40 * n + 60 * (k + 1), n)

\* 40 + (50 * (i + 1) / totalPages)
BgPageProgress(k, n) == Frac(40 * n + 50 * (k + 1), n)

BgCatch == Return("PROCESSING_FAILED", Msg("Failed to add background color."))

BgStart ==
    /\ proc = "bg" /\ pc = "start"
    /\ IF nFiles # 1
       THEN /\ Return("INVALID_OPTIONS", Msg("Exactly 1 PDF file is required."))
            /\ reports' = reset
       ELSE /\ reports' = updateProgress(reset, Pct(10))
            /\ Await("loadPdfLib", "loadPdfLib")
    /\ UNCHANGED <<aux, inputs, cancelled, ocr, work>>

BgLoadLibDone(ok) ==
    /\ proc = "bg" /\ pc = "loadPdfLib"
    /\ IF ok
       THEN /\ reports' = updateProgress(reports, Pct(20))
            /\ Await("load", "load")
       ELSE BgCatch /\ UNCHANGED reports
    /\ UNCHANGED <<aux, inputs, cancelled, ocr, work>>

BgLoadDone(ok) ==
    /\ proc = "bg" /\ pc = "load"
    /\ IF ok
       THEN /\ sel' = PagesToProcess(pagesOpt, totalPages)
            /\ Await("create", "create")
       ELSE BgCatch /\ UNCHANGED sel
    /\ UNCHANGED <<aux, inputs, cancelled, reports, ocr, i, units, applied, outputs, splitOnly, validationError>>

BgCreateDone(ok) ==
    /\ proc = "bg" /\ pc = "create"
    /\ IF ok
       THEN /\ reports' = updateProgress(reports, Pct(30))
            /\ Await("embedPages", "embedPages")
       ELSE BgCatch /\ UNCHANGED reports
    /\ UNCHANGED <<aux, inputs, cancelled, ocr, work>>

BgEmbedDone(ok) ==
    /\ proc = "bg" /\ pc = "embedPages"
    /\ IF ok
       THEN /\ reports' = updateProgress(reports, Pct(40))
            /\ Goto("loop")
       ELSE BgCatch /\ UNCHANGED reports
    /\ UNCHANGED <<aux, inputs, cancelled, ocr, work>>

\* One pass of the page loop (no await inside); after the last page, save.
BgLoop(ok) ==
    /\ proc = "bg" /\ pc = "loop"
    /\ IF i < totalPages
       THEN IF checkCancelled
            THEN ReturnCancelled /\ UNCHANGED <<reports, units, applied, i>>
            ELSE /\ units' = Append(units, i)
                 /\ IF ok
                    THEN /\ applied' = IF Includes(sel, i) THEN Append(applied, i) ELSE applied
                         /\ reports' = updateProgress(reports, BgPageProgress(i, totalPages))
                         /\ i' = i + 1
                         /\ Goto("loop")
                    ELSE BgCatch /\ UNCHANGED <<reports, applied, i>>
       ELSE /\ ok
            /\ reports' = updateProgress(reports, Pct(95))
            /\ Await("save", "save")
            /\ UNCHANGED <<units, applied, i>>
    /\ UNCHANGED <<aux, inputs, cancelled, ocr, sel, outputs, splitOnly, validationError>>

BgSaveDone(ok) ==
    /\ proc = "bg" /\ pc = "save"
    /\ IF ok
       THEN /\ reports' = updateProgress(reports, Pct(100))
            /\ outputs' = <<units>>
            /\ Return("SUCCESS", NoMsg)
       ELSE BgCatch /\ UNCHANGED <<reports, outputs>>
    /\ UNCHANGED <<aux, inputs, cancelled, ocr, i, sel, units, applied, splitOnly, validationError>>

BgNext ==
    \/ BgStart
    \/ \E ok \in BOOLEAN : BgLoadLibDone(ok)
    \/ \E ok \in BOOLEAN : BgLoadDone(ok)
    \/ \E ok \in BOOLEAN : BgCreateDone(ok)
    \/ \E ok \in BOOLEAN : BgEmbedDone(ok)
    \/ \E ok \in BOOLEAN : BgLoop(ok)
    \/ \E ok \in BOOLEAN : BgSaveDone(ok)

\* ================================================== remove annotations
\* 30 + (60 * (i + 1) / pagesToProcess.length)
RemovePageProgress(k, n) == Frac(30 * n + 60 * (k + 1), n)

RemoveCatch == Return("PROCESSING_FAILED", Msg("Failed to remove annotations."))

RemoveStart ==
    /\ proc = "remove" /\ pc = "start"
    /\ IF nFiles # 1
       THEN /\ Return("INVALID_OPTIONS", Msg("Exactly 1 PDF file is required."))
            /\ reports' = reset
       ELSE /\ reports' = updateProgress(reset, Pct(10))
            /\ Await("loadPdfLib", "loadPdfLib")
    /\ UNCHANGED <<aux, inputs, cancelled, ocr, work>>

RemoveLoadLibDone(ok) ==
    /\ proc = "remove" /\ pc = "loadPdfLib"
    /\ IF ok
       THEN /\ reports' = updateProgress(reports, Pct(20))
            /\ Await("load", "load")
       ELSE RemoveCatch /\ UNCHANGED reports
    /\ UNCHANGED <<aux, inputs, cancelled, ocr, work>>

RemoveLoadDone(ok) ==
    /\ proc = "remove" /\ pc = "load"
    /\ IF ok
       THEN /\ sel' = PagesToProcess(pagesOpt, totalPages)
            /\ reports' = updateProgress(reports, Pct(30))
            /\ Goto("loop")
       ELSE RemoveCatch /\ UNCHANGED <<sel, reports>>
    /\ UNCHANGED <<aux, inputs, cancelled, ocr, i, units, applied, outputs, splitOnly, validationError>>

\* One pass of the page loop (no await inside): getPage throws for an index
\* the document does not have.
RemoveLoop(ok) ==
    /\ proc = "remove" /\ pc = "loop"
    /\ IF i < Len(sel)
       THEN IF checkCancelled
            THEN ReturnCancelled /\ UNCHANGED <<reports, units, applied, i>>
            ELSE /\ units' = Append(units, sel[i + 1])
                 /\ IF PageExists(sel[i + 1], totalPages) /\ ok
                    THEN /\ applied' = Append(applied, sel[i + 1])
                         /\ reports' = updateProgress(reports, RemovePageProgress(i, Len(sel)))
                         /\ i' = i + 1
                         /\ Goto("loop")
                    ELSE RemoveCatch /\ UNCHANGED <<reports, applied, i>>
       ELSE /\ ok
            /\ reports' = updateProgress(reports, Pct(95))
            /\ Await("save", "save")
            /\ UNCHANGED <<units, applied, i>>
    /\ UNCHANGED <<aux, inputs, cancelled, ocr, sel, outputs, splitOnly, validationError>>

RemoveSaveDone(ok) ==
    /\ proc = "remove" /\ pc = "save"
    /\ IF ok
       THEN /\ reports' = updateProgress(reports, Pct(100))
            /\ outputs' = <<[k \in 1..totalPages |-> k - 1]>>
            /\ Return("SUCCESS", NoMsg)
       ELSE RemoveCatch /\ UNCHANGED <<reports, outputs>>
    /\ UNCHANGED <<aux, inputs, cancelled, ocr, i, sel, units, applied, splitOnly, validationError>>

RemoveNext ==
    \/ RemoveStart
    \/ \E ok \in BOOLEAN : RemoveLoadLibDone(ok)
    \/ \E ok \in BOOLEAN : RemoveLoadDone(ok)
    \/ \E ok \in BOOLEAN : RemoveLoop(ok)
    \/ \E ok \in BOOLEAN : RemoveSaveDone(ok)

\* ========================================================= text colour
\* pagesToProcess: all 1-based page numbers, or the list as given.
TextPagesToProcess(opt, T) == IF opt.all THEN Range1(T) ELSE opt.list

\* 15 + (75 * (i / pagesToProcess.length))
TextPageProgress(k, n) == Frac(15 * n + 75 * k, n)

TextCatch == Return("PROCESSING_FAILED", Msg("Failed to change text color."))

\* Promise.all([loadPdfLib(), loadPdfjs()]): both loads are started at once.
TextStart ==
    /\ proc = "text" /\ pc = "start"
    /\ IF nFiles # 1
       THEN /\ Return("INVALID_OPTIONS", Msg("Exactly 1 PDF file is required."))
            /\ reports' = reset
       ELSE /\ reports' = updateProgress(reset, Pct(5))
            /\ pc' = "loadLibs"
            /\ inflight' = {"loadPdfLib", "loadPdfjs"}
            /\ calls' = calls \o <<"loadPdfLib", "loadPdfjs">>
            /\ UNCHANGED <<result, message, cancelSeenAt>>
    /\ UNCHANGED <<aux, inputs, cancelled, ocr, work>>

TextLoadLibsDone(ok) ==
    /\ proc = "text" /\ pc = "loadLibs"
    /\ IF ok
       THEN /\ reports' = updateProgress(reports, Pct(10))
            /\ Await("getDocument", "getDocument")
       ELSE TextCatch /\ UNCHANGED reports
    /\ UNCHANGED <<aux, inputs, cancelled, ocr, work>>

TextGetDocumentDone(ok) ==
    /\ proc = "text" /\ pc = "getDocument"
    /\ IF ok
       THEN /\ sel' = TextPagesToProcess(pagesOpt, totalPages)
            /\ Await("create", "create")
       ELSE TextCatch /\ UNCHANGED sel
    /\ UNCHANGED <<aux, inputs, cancelled, reports, ocr, i, units, applied, outputs, splitOnly, validationError>>

TextCreateDone(ok) ==
    /\ proc = "text" /\ pc = "create"
    /\ IF ok
       THEN /\ reports' = updateProgress(reports, Pct(15))
            /\ Goto("loop")
       ELSE TextCatch /\ UNCHANGED reports
    /\ UNCHANGED <<aux, inputs, cancelled, ocr, work>>

\* Head of the page loop; after the last page, save.
TextLoop ==
    /\ proc = "text" /\ pc = "loop"
    /\ IF i < Len(sel)
       THEN IF checkCancelled
            THEN ReturnCancelled /\ UNCHANGED <<reports, units>>
            ELSE /\ reports' = updateProgress(reports, TextPageProgress(i, Len(sel)))
                 /\ units' = Append(units, sel[i + 1])
                 /\ Await("render", "render")
       ELSE /\ reports' = updateProgress(reports, Pct(95))
            /\ Await("save", "save")
            /\ UNCHANGED units
    /\ UNCHANGED <<aux, inputs, cancelled, ocr, i, sel, applied, outputs, splitOnly, validationError>>

\* getPage and render settle (getPage rejects for a page number the document
\* does not have); the pixels are recoloured and the PNG is embedded.
TextRenderDone(ok) ==
    /\ proc = "text" /\ pc = "render"
    /\ IF PageExists(sel[i + 1] - 1, totalPages) /\ ok
       THEN /\ applied' = Append(applied, sel[i + 1])
            /\ Await("embedPng", "embedPng")
       ELSE TextCatch /\ UNCHANGED applied
    /\ UNCHANGED <<aux, inputs, cancelled, reports, ocr, i, sel, units, outputs, splitOnly, validationError>>

\* canvasToPngBytes and embedPng settle; the page is added.
TextEmbedDone(ok) ==
    /\ proc = "text" /\ pc = "embedPng"
    /\ IF ok
       THEN /\ blobs' = Append(blobs, <<sel[i + 1]>>)
            /\ i' = i + 1
            /\ Goto("loop")
       ELSE TextCatch /\ UNCHANGED <<blobs, i>>
    /\ UNCHANGED <<aux, inputs, cancelled, reports, ocr, sel, units, applied, outputs, copied, filenames, validationError>>

TextSaveDone(ok) ==
    /\ proc = "text" /\ pc = "save"
    /\ IF ok
       THEN /\ reports' = updateProgress(reports, Pct(100))
            /\ outputs' = <<[k \in 1..Len(blobs) |-> blobs[k][1]]>>
            /\ Return("SUCCESS", NoMsg)
       ELSE TextCatch /\ UNCHANGED <<reports, outputs>>
    /\ UNCHANGED <<aux, inputs, cancelled, ocr, i, sel, units, applied, splitOnly, validationError>>

TextNext ==
    \/ TextStart
    \/ \E ok \in BOOLEAN : TextLoadLibsDone(ok)
    \/ \E ok \in BOOLEAN : TextGetDocumentDone(ok)
    \/ \E ok \in BOOLEAN : TextCreateDone(ok)
    \/ TextLoop
    \/ \E ok \in BOOLEAN : TextRenderDone(ok)
    \/ \E ok \in BOOLEAN : TextEmbedDone(ok)
    \/ \E ok \in BOOLEAN : TextSaveDone(ok)

\* ======================================================== form creator
\* 30 + (60 * (i + 1) / fields.length)
FormFieldProgress(k, n) == Frac(30 * n + 60 * (k + 1), n)

FormCatch == Return("PROCESSING_FAILED", Msg("Failed to create form."))

FormStart ==
    /\ proc = "form" /\ pc = "start"
    /\ IF nFiles # 1
       THEN /\ Return("INVALID_OPTIONS", Msg("Exactly 1 PDF file is required."))
            /\ reports' = reset
       ELSE IF Len(fields) = 0
       THEN /\ Return("INVALID_OPTIONS", Msg("At least one form field is required."))
            /\ reports' = reset
       ELSE /\ reports' = updateProgress(reset, Pct(10))
            /\ Await("loadPdfLib", "loadPdfLib")
    /\ UNCHANGED <<aux, inputs, cancelled, ocr, work>>

FormLoadLibDone(ok) ==
    /\ proc = "form" /\ pc = "loadPdfLib"
    /\ IF ok
       THEN /\ reports' = updateProgress(reports, Pct(20))
            /\ Await("load", "load")
       ELSE FormCatch /\ UNCHANGED reports
    /\ UNCHANGED <<aux, inputs, cancelled, ocr, work>>

FormLoadDone(ok) ==
    /\ proc = "form" /\ pc = "load"
    /\ IF ok
       THEN /\ reports' = updateProgress(reports, Pct(30))
            /\ Goto("loop")
       ELSE FormCatch /\ UNCHANGED reports
    /\ UNCHANGED <<aux, inputs, cancelled, ocr, work>>

\* One pass of the field loop (no await inside): a field on a page the
\* document does not have is skipped; a field whose creation throws is
\* logged and the loop goes on.
FormLoop(ok) ==
    /\ proc = "form" /\ pc = "loop"
    /\ IF i < Len(fields)
       THEN IF checkCancelled
            THEN ReturnCancelled /\ UNCHANGED <<reports, units, applied, i>>
            ELSE IF ~PageExists(fields[i + 1] - 1, totalPages)
            THEN /\ ok
                 /\ i' = i + 1
                 /\ Goto("loop")
                 /\ UNCHANGED <<reports, units, applied>>
            ELSE /\ units' = Append(units, i + 1)
                 /\ applied' = IF ok THEN Append(applied, i + 1) ELSE applied
                 /\ reports' = updateProgress(reports, FormFieldProgress(i, Len(fields)))
                 /\ i' = i + 1
                 /\ Goto("loop")
       ELSE /\ ok
            /\ reports' = updateProgress(reports, Pct(95))
            /\ Await("save", "save")
            /\ UNCHANGED <<units, applied, i>>
    /\ UNCHANGED <<aux, inputs, cancelled, ocr, sel, outputs, splitOnly, validationError>>

FormSaveDone(ok) ==
    /\ proc = "form" /\ pc = "save"
    /\ IF ok
       THEN /\ reports' = updateProgress(reports, Pct(100))
            /\ outputs' = <<applied>>
            /\ Return("SUCCESS", NoMsg)
       ELSE FormCatch /\ UNCHANGED <<reports, outputs>>
    /\ UNCHANGED <<aux, inputs, cancelled, ocr, i, sel, units, applied, splitOnly, validationError>>

FormNext ==
    \/ FormStart
    \/ \E ok \in BOOLEAN : FormLoadLibDone(ok)
    \/ \E ok \in BOOLEAN : FormLoadDone(ok)
    \/ \E ok \in BOOLEAN : FormLoop(ok)
    \/ \E ok \in BOOLEAN : FormSaveDone(ok)

\* ========================================================= image to PDF
\* 10 + (i * (80 / files.length)), i counted from 0.
ImageFileProgress(k, n) == Frac(10 * n + 80 * k, n)

ImageCatch == Return("PROCESSING_FAILED", Msg("Failed to convert images to PDF."))

ImageStart ==
    /\ proc = "image" /\ pc = "start"
    /\ IF nFiles < 1
       THEN /\ Return("INVALID_OPTIONS", Msg("At least 1 image file is required."))
            /\ reports' = reset
       ELSE IF ~typeOk
       THEN /\ Return("FILE_TYPE_INVALID", Msg("Invalid file type"))
            /\ reports' = reset
       ELSE /\ reports' = updateProgress(reset, Pct(5))
            /\ Await("loadPdfLib", "loadPdfLib")
    /\ UNCHANGED <<aux, inputs, cancelled, ocr, work>>

ImageLoadLibDone(ok) ==
    /\ proc = "image" /\ pc = "loadPdfLib"
    /\ IF ~ok
       THEN ImageCatch /\ UNCHANGED reports
       ELSE IF checkCancelled
       THEN ReturnCancelled /\ UNCHANGED reports
       ELSE /\ reports' = updateProgress(reports, Pct(10))
            /\ Await("create", "create")
    /\ UNCHANGED <<aux, inputs, cancelled, ocr, work>>

ImageCreateDone(ok) ==
    /\ proc = "image" /\ pc = "create"
    /\ IF ok THEN Goto("loop") ELSE ImageCatch
    /\ UNCHANGED <<aux, inputs, cancelled, reports, ocr, work>>

\* Head of the image loop; after the last image, save.
ImageLoop ==
    /\ proc = "image" /\ pc = "loop"
    /\ IF i < nFiles
       THEN IF checkCancelled
            THEN ReturnCancelled /\ UNCHANGED <<reports, units>>
            ELSE /\ reports' = updateProgress(reports, ImageFileProgress(i, nFiles))
                 /\ units' = Append(units, i + 1)
                 /\ Await("addImageToDocument", "addImage")
       ELSE /\ reports' = updateProgress(reports, Pct(95))
            /\ Await("save", "save")
            /\ UNCHANGED units
    /\ UNCHANGED <<aux, inputs, cancelled, ocr, i, sel, applied, outputs, splitOnly, validationError>>

\* addImageToDocument settles; its failure is returned from inside the loop.
ImageAddDone(ok) ==
    /\ proc = "image" /\ pc = "addImage"
    /\ IF ok
       THEN /\ applied' = Append(applied, i + 1)
            /\ i' = i + 1
            /\ Goto("loop")
       ELSE /\ Return("PROCESSING_FAILED", Msg("Failed to process image."))
            /\ UNCHANGED <<applied, i>>
    /\ UNCHANGED <<aux, inputs, cancelled, reports, ocr, sel, units, outputs, splitOnly, validationError>>

ImageSaveDone(ok) ==
    /\ proc = "image" /\ pc = "save"
    /\ IF ok
       THEN /\ reports' = updateProgress(reports, Pct(100))
            /\ outputs' = <<applied>>
            /\ Return("SUCCESS", NoMsg)
       ELSE ImageCatch /\ UNCHANGED <<reports, outputs>>
    /\ UNCHANGED <<aux, inputs, cancelled, ocr, i, sel, units, applied, splitOnly, validationError>>

ImageNext ==
    \/ ImageStart
    \/ \E ok \in BOOLEAN : ImageLoadLibDone(ok)
    \/ \E ok \in BOOLEAN : ImageCreateDone(ok)
    \/ ImageLoop
    \/ \E ok \in BOOLEAN : ImageAddDone(ok)
    \/ \E ok \in BOOLEAN : ImageSaveDone(ok)

\* ============================================================ inputs
PageVals == 0..(MaxPages + 1)
PageLists == SeqsUpTo(PageVals, MaxSel)

InitCommon ==
    /\ cancelled = FALSE
    /\ pc = "start" /\ inflight = {} /\ calls = <<>>
    /\ result = "none" /\ message = NoMsg
    /\ reports = <<>>
    /\ i = 0 /\ sel = <<>> /\ units = <<>> /\ copied = <<>> /\ blobs = <<>> /\ applied = <<>>
    /\ validationError = Unset
    /\ cancelSeenAt = -1
    /\ outputs = <<>> /\ filenames = <<>>
    /\ tesseractWorker = Null /\ sess = "Uninitialized" /\ textResults = <<>>

InitOCR ==
    /\ proc = "ocr"
    /\ ranges = <<>> /\ fields = <<>>
    /\ \/ /\ nFiles \in {0, 2} /\ typeOk = TRUE
          /\ totalPages = 0 /\ pagesOpt = [all |-> FALSE, list |-> <<>>]
          /\ outputFormat = "text"
       \/ /\ nFiles = 1 /\ typeOk = FALSE
          /\ totalPages = 0 /\ pagesOpt = [all |-> FALSE, list |-> <<>>]
          /\ outputFormat = "text"
       \/ /\ nFiles = 1 /\ typeOk = TRUE
          /\ totalPages \in 0..MaxPages
          /\ pagesOpt \in [all : {FALSE}, list : PageLists]
          /\ outputFormat \in {"text", "searchable-pdf"}

RangeVals(T) == 0..(T + 1)
RangeLists(T) == SeqsUpTo([start : RangeVals(T), end : RangeVals(T)], MaxRanges)

InitSplit ==
    /\ proc = "split"
    /\ typeOk = TRUE /\ fields = <<>>
    /\ pagesOpt = [all |-> TRUE, list |-> <<>>]
    /\ \/ /\ nFiles \in {0, 2}
          /\ totalPages = 0 /\ ranges = <<>> /\ outputFormat = "multiple"
       \/ /\ nFiles = 1
          /\ totalPages \in 0..MaxPages
          /\ ranges \in RangeLists(totalPages)
          /\ outputFormat \in {"multiple", "single"}

PageOpts == [all : {FALSE}, list : PageLists] \cup {[all |-> TRUE, list |-> <<>>]}

\* Background colour, remove annotations and text colour take the same inputs.
InitPaged(p) ==
    /\ proc = p
    /\ typeOk = TRUE /\ fields = <<>> /\ ranges = <<>> /\ outputFormat = "pdf"
    /\ \/ /\ nFiles \in {0, 2}
          /\ totalPages = 0 /\ pagesOpt = [all |-> TRUE, list |-> <<>>]
       \/ /\ nFiles = 1
          /\ totalPages \in 0..MaxPages
          /\ pagesOpt \in PageOpts

InitForm ==
    /\ proc = "form"
    /\ typeOk = TRUE /\ ranges = <<>> /\ outputFormat = "pdf"
    /\ pagesOpt = [all |-> TRUE, list |-> <<>>]
    /\ \/ /\ nFiles \in {0, 2}
          /\ totalPages = 0 /\ fields = <<>>
       \/ /\ nFiles = 1
          /\ totalPages \in 0..MaxPages
          /\ fields \in SeqsUpTo(PageVals, MaxFields)

InitImage ==
    /\ proc = "image"
    /\ ranges = <<>> /\ fields = <<>> /\ outputFormat = "pdf"
    /\ pagesOpt = [all |-> TRUE, list |-> <<>>]
    /\ totalPages = 0
    /\ nFiles \in 0..MaxFiles
    /\ typeOk \in BOOLEAN

\* No recolour pass and no second run are part of a single job.
RecolorIdle ==
    /\ data = <<>> /\ orig = <<>> /\ mode = "dark" /\ threshold = 0
    /\ color = [r |-> 0, g |-> 0, b |-> 0] /\ j = 0 /\ written = {}
    /\ once = <<>>

RunsIdle == run = <<>>

CallIdle == fn = "none" /\ args = <<>> /\ ret = <<>>

Init ==
    /\ InitCommon
    /\ RecolorIdle /\ RunsIdle /\ CallIdle
    /\ \/ InitOCR
       \/ InitSplit
       \/ InitPaged("bg")
       \/ InitPaged("remove")
       \/ InitPaged("text")
       \/ InitForm
       \/ InitImage

Next ==
    \/ Cancel
    \/ OCRNext
    \/ SplitNext
    \/ BgNext
    \/ RemoveNext
    \/ TextNext
    \/ FormNext
    \/ ImageNext

Spec == Init /\ [][Next]_vars


\* ================================= two runs on one OCRProcessor instance
\* Two calls of process() on the same instance share the field
\* tesseractWorker; their steps interleave at the awaits (one may also run
\* to its end before the other starts).  Each run is followed through the
\* statements that touch the field; the session a run creates is named
\* after the run.  Every collaborator call succeeds and cancel() is not
\* called here.
Runs == {"A", "B"}

jobButWorker == <<inputs, cancelled, ctl, reports, sess, textResults, work>>

RunIdle == [pc |-> "idle", page |-> 0, own |-> FALSE,
            used |-> {}, closed |-> {}, over |-> {}]

\* process() is called: validation passes, loadPdfjs is awaited.
TwoStart(r) ==
    /\ run[r].pc = "idle"
    /\ run' = [run EXCEPT ![r].pc = "loadPdfjs"]
    /\ UNCHANGED <<helper, recolor, jobButWorker, tesseractWorker>>

\* loadPdfjs settled: initializeTesseract is called and awaits createWorker.
TwoLoadPdfjsDone(r) ==
    /\ run[r].pc = "loadPdfjs"
    /\ run' = [run EXCEPT ![r].pc = "createWorker"]
    /\ UNCHANGED <<helper, recolor, jobButWorker, tesseractWorker>>

\* createWorker settled: the new session is stored in the field, whatever
\* the field held.
TwoInitDone(r) ==
    /\ run[r].pc = "createWorker"
    /\ tesseractWorker' = r
    /\ run' = [run EXCEPT ![r].pc = "getDocument",
                          ![r].own = TRUE,
                          ![r].over = IF tesseractWorker = Null THEN @
                                      ELSE @ \cup {tesseractWorker}]
    /\ UNCHANGED <<helper, recolor, jobButWorker>>

TwoGetDocumentDone(r) ==
    /\ run[r].pc = "getDocument"
    /\ run' = [run EXCEPT ![r].pc = "loop"]
    /\ UNCHANGED <<helper, recolor, jobButWorker, tesseractWorker>>

\* Head of the page loop: ocrPage throws at once when the field is null (the
\* page gets an error marker); after the last page terminateTesseract() calls
\* terminate() on the session the field holds now.
TwoLoop(r) ==
    /\ run[r].pc = "loop"
    /\ IF run[r].page < totalPages
       THEN IF tesseractWorker = Null
            THEN run' = [run EXCEPT ![r].page = @ + 1]
            ELSE run' = [run EXCEPT ![r].pc = "render"]
       ELSE IF tesseractWorker # Null
            THEN run' = [run EXCEPT ![r].pc = "terminate",
                                    ![r].closed = @ \cup {tesseractWorker}]
            ELSE run' = [run EXCEPT ![r].pc = "done"]
    /\ UNCHANGED <<helper, recolor, jobButWorker, tesseractWorker>>

\* getPage and render settled: recognize is called on the session the field
\* holds now (a null field throws into the page's catch).
TwoRenderDone(r) ==
    /\ run[r].pc = "render"
    /\ IF tesseractWorker = Null
       THEN run' = [run EXCEPT ![r].pc = "loop", ![r].page = @ + 1]
       ELSE run' = [run EXCEPT ![r].pc = "recognize",
                               ![r].used = @ \cup {tesseractWorker}]
    /\ UNCHANGED <<helper, recolor, jobButWorker, tesseractWorker>>

TwoRecognizeDone(r) ==
    /\ run[r].pc = "recognize"
    /\ run' = [run EXCEPT ![r].pc = "loop", ![r].page = @ + 1]
    /\ UNCHANGED <<helper, recolor, jobButWorker, tesseractWorker>>

\* terminate() settled: the field is set to null, whatever it holds now.
TwoTerminateDone(r) ==
    /\ run[r].pc = "terminate"
    /\ tesseractWorker' = Null
    /\ run' = [run EXCEPT ![r].pc = "done"]
    /\ UNCHANGED <<helper, recolor, jobButWorker>>

InitTwoRuns ==
    /\ InitCommon
    /\ RecolorIdle /\ CallIdle
    /\ proc = "ocr" /\ nFiles = 1 /\ typeOk = TRUE
    /\ totalPages \in 1..MaxPages
    /\ pagesOpt = [all |-> FALSE, list |-> <<>>]
    /\ ranges = <<>> /\ fields = <<>> /\ outputFormat = "text"
    /\ run = [r \in Runs |-> RunIdle]

NextTwoRuns ==
    \E r \in Runs :
        \/ TwoStart(r)
        \/ TwoLoadPdfjsDone(r)
        \/ TwoInitDone(r)
        \/ TwoGetDocumentDone(r)
        \/ TwoLoop(r)
        \/ TwoRenderDone(r)
        \/ TwoRecognizeDone(r)
        \/ TwoTerminateDone(r)

SpecTwoRuns == InitTwoRuns /\ [][NextTwoRuns]_vars


\* ======================================== recolour pass of text colour
\* The pixel loop of TextColorProcessor.process over imageData.data, a
\* Uint8ClampedArray of RGBA bytes, one step per pixel.
MaxPixels == 2

\* What a Uint8ClampedArray stores for the number x2 / 2: clamped to
\* [0, 255] and rounded to the nearest integer, halves to the even one.
ToUint8Clamp(x2) ==
    IF x2 <= 0 THEN 0
    ELSE IF x2 >= 510 THEN 255
    ELSE IF x2 % 2 = 0 THEN x2 \div 2
    ELSE IF (x2 \div 2) % 2 = 0 THEN x2 \div 2 ELSE (x2 \div 2) + 1

\* Mutant of shouldChange: a pixel at the threshold is changed as well.
shouldChangeInclusive(isDarkMode, pixelR, pixelG, pixelB, thr) ==
    IF isDarkMode
    THEN pixelR + pixelG + pixelB <= 3 * thr
    ELSE pixelR + pixelG + pixelB >= 3 * thr

\* brightness = (pixelR + pixelG + pixelB) / 3, compared with the threshold
\* (both sides times 3, so that the mean stays exact).
shouldChange(isDarkMode, pixelR, pixelG, pixelB, thr) ==
    IF isDarkMode
    THEN pixelR + pixelG + pixelB < 3 * thr
    ELSE pixelR + pixelG + pixelB > 3 * thr

\* Mutant of WritePixel: the pixel is also made opaque.
WritePixelOpaque(buf, o, c) ==
    [buf EXCEPT ![o + 1] = ToUint8Clamp(c.r),
                ![o + 2] = ToUint8Clamp(c.g),
                ![o + 3] = ToUint8Clamp(c.b),
                ![o + 4] = 255]

\* Mutant of WritePixel: the colour is added to half of what is there.
WritePixelBlend(buf, o, c) ==
    [buf EXCEPT ![o + 1] = ToUint8Clamp(buf[o + 1] + c.r),
                ![o + 2] = ToUint8Clamp(buf[o + 2] + c.g),
                ![o + 3] = ToUint8Clamp(buf[o + 3] + c.b)]

\* data[j] = r * 255; data[j + 1] = g * 255; data[j + 2] = b * 255
\* (c holds twice the products; offsets count from 0 as in the code).
WritePixel(buf, o, c) ==
    [buf EXCEPT ![o + 1] = ToUint8Clamp(c.r),
                ![o + 2] = ToUint8Clamp(c.g),
                ![o + 3] = ToUint8Clamp(c.b)]

\* One pass of `for (let j = 0; j < data.length; j += 4)`.
RecolorPixel ==
    /\ j < Len(data)
    /\ IF shouldChange(mode = "dark", data[j + 1], data[j + 2], data[j + 3], threshold)
       THEN /\ data' = WritePixel(data, j, color)
            /\ written' = written \cup {j}
       ELSE UNCHANGED <<data, written>>
    /\ j' = j + 4
    /\ UNCHANGED <<orig, mode, threshold, color, once, run, helper, job>>

\* The pass is applied again to the buffer it has produced.
RecolorAgain ==
    /\ once = <<>> /\ j = Len(data)
    /\ once' = <<data>>
    /\ j' = 0
    /\ UNCHANGED <<data, orig, mode, threshold, color, written, run, helper, job>>

\* Pixels below, at and above the thresholds, with thirds in the mean and
\* with different alpha bytes.
PixelVals ==
    { <<0, 0, 0, 255>>, <<255, 255, 255, 0>>, <<128, 128, 128, 255>>,
      <<127, 128, 128, 77>>, <<128, 128, 129, 0>>, <<0, 127, 254, 128>> }

Flat(ps) == [n \in 1..(4 * Len(ps)) |-> ps[((n - 1) \div 4) + 1][((n - 1) % 4) + 1]]

\* Target colours as twice r * 255, g * 255, b * 255: exact bytes, halves,
\* and components outside [0, 1].
ColorVals ==
    { [r |-> 0, g |-> 0, b |-> 0],
      [r |-> 510, g |-> 255, b |-> 600],
      [r |-> -10, g |-> 257, b |-> 256] }

InitRecolor ==
    /\ InitCommon
    /\ RunsIdle /\ CallIdle
    /\ proc = "text" /\ nFiles = 1 /\ typeOk = TRUE /\ totalPages = 1
    /\ pagesOpt = [all |-> TRUE, list |-> <<>>]
    /\ ranges = <<>> /\ fields = <<>> /\ outputFormat = "pdf"
    /\ data \in {Flat(ps) : ps \in SeqsUpTo(PixelVals, MaxPixels)}
    /\ orig = data
    /\ mode \in {"dark", "light"}
    /\ threshold \in {0, 127, 128, 255}
    /\ color \in ColorVals
    /\ j = 0
    /\ written = {}
    /\ once = <<>>

NextRecolor == RecolorPixel

SpecRecolor == InitRecolor /\ [][NextRecolor]_vars

NextRecolorTwice ==
    \/ RecolorPixel
    \/ RecolorAgain

SpecRecolorTwice == InitRecolor /\ [][NextRecolorTwice]_vars


\* ================================ helper functions, each called on its own
\* ---- page geometry of image-to-PDF; lengths in hundredths of a point
PAGE_SIZES ==
    [A4 |-> [width |-> 59528, height |-> 84189],
     LETTER |-> [width |-> 61200, height |-> 79200],
     LEGAL |-> [width |-> 61200, height |-> 100800],
     A3 |-> [width |-> 84189, height |-> 119055],
     A5 |-> [width |-> 41953, height |-> 59528],
     FIT |-> [width |-> 0, height |-> 0]]

\* typeof options.pageSize === 'string': a preset's name, else name "custom"
\* with the explicit width and height.
IsPreset(pageSize) == pageSize.name # "custom"

\* calculatePageDimensions, "Get base page size".
BasePageSize(imageWidth, imageHeight, options) ==
    IF IsPreset(options.pageSize)
    THEN IF options.pageSize.name = "FIT"
         THEN [pageWidth |-> imageWidth + (options.margin * 2),
               pageHeight |-> imageHeight + (options.margin * 2)]
         ELSE [pageWidth |-> PAGE_SIZES[options.pageSize.name].width,
               pageHeight |-> PAGE_SIZES[options.pageSize.name].height]
    ELSE [pageWidth |-> options.pageSize.width,
          pageHeight |-> options.pageSize.height]

Swap(p) == [pageWidth |-> p.pageHeight, pageHeight |-> p.pageWidth]

\* Mutant of OrientPage: the tests of portrait and landscape are exchanged.
OrientPageInverted(imageWidth, imageHeight, base, options) ==
    IF options.orientation = "landscape"
    THEN IF base.pageWidth > base.pageHeight THEN Swap(base) ELSE base
    ELSE IF options.orientation = "portrait"
    THEN IF base.pageWidth < base.pageHeight THEN Swap(base) ELSE base
    ELSE base

\* Mutant of OrientPage: 'auto' leaves every page as it is.
OrientPageAutoKeeps(imageWidth, imageHeight, base, options) ==
    IF options.orientation = "landscape"
    THEN IF base.pageWidth < base.pageHeight THEN Swap(base) ELSE base
    ELSE IF options.orientation = "portrait"
    THEN IF base.pageWidth > base.pageHeight THEN Swap(base) ELSE base
    ELSE base

\* calculatePageDimensions, "Handle orientation".
OrientPage(imageWidth, imageHeight, base, options) ==
    IF options.orientation = "landscape"
    THEN IF base.pageWidth < base.pageHeight THEN Swap(base) ELSE base
    ELSE IF options.orientation = "portrait"
    THEN IF base.pageWidth > base.pageHeight THEN Swap(base) ELSE base
    ELSE IF options.orientation = "auto"
    THEN LET imageIsLandscape == imageWidth > imageHeight
             pageIsLandscape == base.pageWidth > base.pageHeight
         IN  IF imageIsLandscape # pageIsLandscape
                /\ IsPreset(options.pageSize) /\ options.pageSize.name # "FIT"
             THEN Swap(base)
             ELSE base
    ELSE base

calculatePageDimensions(imageWidth, imageHeight, options) ==
    OrientPage(imageWidth, imageHeight,
               BasePageSize(imageWidth, imageHeight, options), options)

FMin(a, b) == IF Leq(a, b) THEN a ELSE b
FEq(a, b) == a.n * b.d = b.n * a.d
FAdd(a, b) == Frac(a.n * b.d + b.n * a.d, a.d * b.d)

\* Mutant of FitScale: the scale is not capped at 1.
FitScaleUpscales(availableWidth, availableHeight, imageWidth, imageHeight) ==
    FMin(Frac(availableWidth, imageWidth), Frac(availableHeight, imageHeight))

\* Mutant of FitScale: the height of the available area is not looked at.
FitScaleWidthOnly(availableWidth, availableHeight, imageWidth, imageHeight) ==
    FMin(Frac(availableWidth, imageWidth), Frac(1, 1))

\* Math.min(scaleX, scaleY, 1)
FitScale(availableWidth, availableHeight, imageWidth, imageHeight) ==
    FMin(FMin(Frac(availableWidth, imageWidth), Frac(availableHeight, imageHeight)),
         Frac(1, 1))

\* Mutant of CentredAt: the placement is centred in the available area.
CentredAtAvailable(pageLength, margin, length) ==
    Frac((pageLength - margin * 2) * length.d - length.n, 2 * length.d)

\* Mutant of CentredAt: the placement is centred a margin further in.
CentredAtPlusMargin(pageLength, margin, length) ==
    Frac(pageLength * length.d - length.n + margin * 2 * length.d, 2 * length.d)

\* (pageWidth - width) / 2
CentredAt(pageLength, margin, length) ==
    Frac(pageLength * length.d - length.n, 2 * length.d)

calculateImagePlacement(imageWidth, imageHeight, pageWidth, pageHeight, options) ==
    LET availableWidth == pageWidth - (options.margin * 2)
        availableHeight == pageHeight - (options.margin * 2)
        scale == IF options.scaleToFit
                 THEN FitScale(availableWidth, availableHeight, imageWidth, imageHeight)
                 ELSE Frac(1, 1)
        width == Frac(imageWidth * scale.n, scale.d)
        height == Frac(imageHeight * scale.n, scale.d)
    IN  [x |-> IF options.centerImage
               THEN CentredAt(pageWidth, options.margin, width)
               ELSE Frac(options.margin, 1),
         y |-> IF options.centerImage
               THEN CentredAt(pageHeight, options.margin, height)
               ELSE Frac(options.margin, 1),
         width |-> width,
         height |-> height]

NoPlace == [x |-> Frac(0, 1), y |-> Frac(0, 1), width |-> Frac(0, 1), height |-> Frac(0, 1)]

\* addImageToDocument: the page dimensions for the embedded image ...
CallPageDimensions ==
    /\ fn = "addImageToDocument" /\ ret.at = "embedded"
    /\ ret' = [at |-> "page",
               page |-> calculatePageDimensions(args.imageWidth, args.imageHeight,
                                                args.options),
               place |-> NoPlace]
    /\ UNCHANGED <<fn, args, recolor, run, job>>

\* ... and the placement of the image on that page.
CallImagePlacement ==
    /\ fn = "addImageToDocument" /\ ret.at = "page"
    /\ ret' = [ret EXCEPT !.at = "placed",
                          !.place = calculateImagePlacement(
                                        args.imageWidth, args.imageHeight,
                                        ret.page.pageWidth, ret.page.pageHeight,
                                        args.options)]
    /\ UNCHANGED <<fn, args, recolor, run, job>>

\* Image sizes (at least one unit each way), explicit page sizes, margins.
ImageLengths == {2, 4, 6, 10, 30}
PageLengths == {4, 6, 8, 10}
MarginVals == {0, 1, 3, 3600}

PageSizeVals ==
    {[name |-> n, width |-> 0, height |-> 0] :
         n \in {"A4", "LETTER", "LEGAL", "A3", "A5", "FIT"}}
    \cup [name : {"custom"}, width : PageLengths, height : PageLengths]

InitGeometry ==
    /\ fn = "addImageToDocument"
    /\ args \in [imageWidth : ImageLengths, imageHeight : ImageLengths,
                 options : [pageSize : PageSizeVals,
                            orientation : {"portrait", "landscape", "auto"},
                            margin : MarginVals,
                            centerImage : BOOLEAN,
                            scaleToFit : BOOLEAN]]
    /\ ret = [at |-> "embedded",
              page |-> [pageWidth |-> 0, pageHeight |-> 0],
              place |-> NoPlace]

\* ---- createSplitEveryNPages, one loop iteration per step
MaxTotalPages == 10
MaxN == 3

Min(a, b) == IF a <= b THEN a ELSE b

\* Mutant of ChunkEnd: the end is not capped at the last page.
ChunkEndUncapped(start, n, total) == start + n - 1

\* Math.min(start + n - 1, totalPages)
ChunkEnd(start, n, total) == Min(start + n - 1, total)

\* Mutant of NextStart: one page is left out between two chunks.
NextStartSkips(start, n) == start + n + 1

\* start += n
NextStart(start, n) == start + n

InitEveryN ==
    /\ fn = "createSplitEveryNPages"
    /\ args \in [totalPages : 0..MaxTotalPages, n : 1..MaxN]
    /\ ret = [at |-> "loop", start |-> 1, ranges |-> <<>>,
              validationError |-> Unset, outputs |-> <<>>]

\* The number of ranges the array can take before memory runs out.
MaxHeap == 12

\* The loop body: start <= totalPages.
EveryNPush ==
    /\ fn = "createSplitEveryNPages" /\ ret.at = "loop"
    /\ ret.start <= args.totalPages
    /\ Len(ret.ranges) < MaxHeap
    /\ ret' = [ret EXCEPT
                  !.ranges = Append(@, [start |-> ret.start,
                                        end |-> ChunkEnd(ret.start, args.n,
                                                         args.totalPages)]),
                  !.start = NextStart(@, args.n)]
    /\ UNCHANGED <<fn, args, recolor, run, job>>

\* The loop condition fails: return ranges.
EveryNReturn ==
    /\ fn = "createSplitEveryNPages" /\ ret.at = "loop"
    /\ ~(ret.start <= args.totalPages)
    /\ ret' = [ret EXCEPT !.at = "returned"]
    /\ UNCHANGED <<fn, args, recolor, run, job>>

\* The list returned is given to a split: validatePageRanges on it ...
EveryNValidate ==
    /\ fn = "createSplitEveryNPages" /\ ret.at = "returned"
    /\ ret' = [ret EXCEPT !.at = "validated",
                          !.validationError =
                              validatePageRanges(ret.ranges, args.totalPages)]
    /\ UNCHANGED <<fn, args, recolor, run, job>>

\* ... and, if it is accepted, the pages copied into one output per range.
EveryNCopy ==
    /\ fn = "createSplitEveryNPages" /\ ret.at = "validated"
    /\ ret.validationError = NoMsg
    /\ ret' = [ret EXCEPT !.at = "copied",
                          !.outputs = [k \in 1..Len(ret.ranges) |->
                                          PageIndices(ret.ranges[k])]]
    /\ UNCHANGED <<fn, args, recolor, run, job>>

\* ranges.push when the array cannot grow any further: the call throws.
EveryNOutOfMemory ==
    /\ fn = "createSplitEveryNPages" /\ ret.at = "loop"
    /\ ret.start <= args.totalPages
    /\ ~(Len(ret.ranges) < MaxHeap)
    /\ ret' = [ret EXCEPT !.at = "thrown"]
    /\ UNCHANGED <<fn, args, recolor, run, job>>

\* ---- the output names of a split, one per range (the loop of process())
MaxNamePages == 3
MaxNameLen == 3

NameVals == SeqsUpTo({"r", "."}, MaxNameLen) \cup {FileName}
ValidRangeVals ==
    {r \in [start : 1..MaxNamePages, end : 1..MaxNamePages] : r.start <= r.end}

InitSplitNames ==
    /\ fn = "generateSplitFilename"
    /\ args \in [originalName : NameVals,
                 ranges : SeqsUpTo(ValidRangeVals, MaxRanges) \ {<<>>}]
    /\ ret = [at |-> "loop", i |-> 0, outputFilenames |-> <<>>]

\* outputFilenames.push(generateSplitFilename(file.name, range, i + 1, ...))
SplitNamesPush ==
    /\ fn = "generateSplitFilename" /\ ret.at = "loop"
    /\ ret.i < Len(args.ranges)
    /\ ret' = [ret EXCEPT
                  !.outputFilenames =
                      Append(@, generateSplitFilename(args.originalName,
                                                      args.ranges[ret.i + 1],
                                                      ret.i + 1, Len(args.ranges))),
                  !.i = @ + 1]
    /\ UNCHANGED <<fn, args, recolor, run, job>>

SplitNamesReturn ==
    /\ fn = "generateSplitFilename" /\ ret.at = "loop"
    /\ ~(ret.i < Len(args.ranges))
    /\ ret' = [ret EXCEPT !.at = "returned"]
    /\ UNCHANGED <<fn, args, recolor, run, job>>

\* ---- parsePageRanges, one token per step; strings as character sequences
MaxStr == 5

\* String.prototype.split for a one-character separator.
RECURSIVE split(_, _)
split(cs, sep) ==
    LET at == {k \in 1..Len(cs) : cs[k] = sep}
    IN  IF at = {} THEN <<cs>>
        ELSE LET k == CHOOSE k \in at : \A m \in at : k <= m
             IN  <<SubSeq(cs, 1, k - 1)>> \o split(SubSeq(cs, k + 1, Len(cs)), sep)

RECURSIVE trimStart(_)
trimStart(cs) ==
    IF cs # <<>> /\ Head(cs) = " " THEN trimStart(Tail(cs)) ELSE cs

RECURSIVE trimEnd(_)
trimEnd(cs) ==
    IF cs # <<>> /\ cs[Len(cs)] = " " THEN trimEnd(SubSeq(cs, 1, Len(cs) - 1)) ELSE cs

trim(cs) == trimEnd(trimStart(cs))

includes(cs, c) == \E k \in 1..Len(cs) : cs[k] = c

IsDigit(c) == c \in {"0", "1", "2", "3", "4", "5", "6", "7", "8", "9"}
DigitVal(c) == CHOOSE v \in 0..9 : ToString(v) = c

RECURSIVE Decimal(_)
Decimal(ds) ==
    IF ds = <<>> THEN 0
    ELSE 10 * Decimal(SubSeq(ds, 1, Len(ds) - 1)) + DigitVal(ds[Len(ds)])

RECURSIVE DigitPrefix(_)
DigitPrefix(cs) ==
    IF cs # <<>> /\ IsDigit(Head(cs)) THEN <<Head(cs)>> \o DigitPrefix(Tail(cs))
    ELSE <<>>

NaN == [nan |-> TRUE, val |-> 0]

\* parseInt(cs, 10): leading white space, an optional sign, then the longest
\* run of digits; NaN when there is no digit there.
parseInt(cs) ==
    LET t == trimStart(cs)
        signed == t # <<>> /\ Head(t) \in {"+", "-"}
        ds == DigitPrefix(IF signed THEN Tail(t) ELSE t)
    IN  IF ds = <<>> THEN NaN
        ELSE [nan |-> FALSE,
              val |-> IF signed /\ Head(t) = "-" THEN 0 - Decimal(ds) ELSE Decimal(ds)]

\* rangeString.split(',').map(s => s.trim()).filter(s => s.length > 0)
Parts(rangeString) ==
    LET pieces == split(rangeString, ",")
    IN  SelectSeq([k \in 1..Len(pieces) |-> trim(pieces[k])], LAMBDA t : t # <<>>)

\* Mutant of ParsePart: a pair gives the range in the other order.
ParsePartSwapped(part) ==
    IF includes(part, "-")
    THEN LET pieces == split(part, "-")
             start == parseInt(trim(pieces[1]))
             end == parseInt(trim(pieces[2]))
         IN  IF ~start.nan /\ ~end.nan
             THEN <<[start |-> end.val, end |-> start.val]>>
             ELSE <<>>
    ELSE LET pageNum == parseInt(part)
         IN  IF ~pageNum.nan THEN <<[start |-> pageNum.val, end |-> pageNum.val]>>
             ELSE <<>>

\* The body of the loop for one token: the ranges it pushes (none or one).
ParsePart(part) ==
    IF includes(part, "-")
    THEN LET pieces == split(part, "-")
             start == parseInt(trim(pieces[1]))
             end == parseInt(trim(pieces[2]))
         IN  IF ~start.nan /\ ~end.nan
             THEN <<[start |-> start.val, end |-> end.val]>>
             ELSE <<>>
    ELSE LET pageNum == parseInt(part)
         IN  IF ~pageNum.nan THEN <<[start |-> pageNum.val, end |-> pageNum.val]>>
             ELSE <<>>

\* Mutant of AfterPart: a token that gives no range ends the loop.
AfterPartStopsAtMalformed(k, pushed, n) == IF pushed = <<>> THEN n ELSE k + 1

\* for (const part of parts): on to the next token, whatever the last gave.
AfterPart(k, pushed, n) == k + 1

StrVals == SeqsUpTo({"1", ",", "-", "x", " "}, MaxStr)

InitParse ==
    /\ fn = "parsePageRanges"
    /\ args \in [rangeString : StrVals]
    /\ ret = [at |-> "loop", parts |-> Parts(args.rangeString), k |-> 0,
              ranges |-> <<>>]

ParseNextPart ==
    /\ fn = "parsePageRanges" /\ ret.at = "loop"
    /\ ret.k < Len(ret.parts)
    /\ LET pushed == ParsePart(ret.parts[ret.k + 1])
       IN  ret' = [ret EXCEPT !.ranges = @ \o pushed,
                              !.k = AfterPart(@, pushed, Len(ret.parts))]
    /\ UNCHANGED <<fn, args, recolor, run, job>>

ParseReturn ==
    /\ fn = "parsePageRanges" /\ ret.at = "loop"
    /\ ~(ret.k < Len(ret.parts))
    /\ ret' = [ret EXCEPT !.at = "returned"]
    /\ UNCHANGED <<fn, args, recolor, run, job>>

\* No job runs while a helper is called on its own.
JobIdle ==
    /\ InitCommon
    /\ proc = "none" /\ nFiles = 0 /\ typeOk = TRUE /\ totalPages = 0
    /\ pagesOpt = [all |-> TRUE, list |-> <<>>]
    /\ ranges = <<>> /\ fields = <<>> /\ outputFormat = "pdf"

InitHelpers ==
    /\ JobIdle /\ RecolorIdle /\ RunsIdle
    /\ \/ InitGeometry
       \/ InitEveryN
       \/ InitSplitNames
       \/ InitParse

NextHelpers ==
    \/ CallPageDimensions
    \/ CallImagePlacement
    \/ EveryNPush
    \/ EveryNReturn
    \/ EveryNValidate
    \/ EveryNCopy
    \/ SplitNamesPush
    \/ SplitNamesReturn
    \/ ParseNextPart
    \/ ParseReturn

SpecHelpers == InitHelpers /\ [][NextHelpers]_vars

\* createSplitEveryNPages for every integer n, n = 0 and n < 0 included.
InitEveryNAnyN ==
    /\ JobIdle /\ RecolorIdle /\ RunsIdle
    /\ fn = "createSplitEveryNPages"
    /\ args \in [totalPages : 0..MaxTotalPages, n : (0 - 2)..MaxN]
    /\ ret = [at |-> "loop", start |-> 1, ranges |-> <<>>,
              validationError |-> Unset, outputs |-> <<>>]

NextEveryN ==
    \/ EveryNPush
    \/ EveryNReturn
    \/ EveryNOutOfMemory

SpecEveryN == InitEveryNAnyN /\ [][NextEveryN]_vars


\* ============================================================== claims
Done == result # "none"
SessionCreated == sess # "Uninitialized"

\* C1: in every run of OCRProcessor.process that created the recognition
\* session, terminate() has been called on it exactly once when the run
\* ends, whatever the exit path (a failure of terminate() included).
C1_TerminateCalledExactlyOnce ==
    (proc = "ocr" /\ Done /\ SessionCreated) => Count(calls, "terminate") = 1

\* C2: when a run of OCRProcessor.process has ended, with any outcome, the
\* session is neither Ready nor Recognizing: tesseractWorker is null and no
\* recognize call is in flight.
C2_SessionClosedWhenRunEnds ==
    (proc = "ocr" /\ Done) =>
        /\ tesseractWorker = Null
        /\ sess \notin {"Ready", "Recognizing"}
        /\ "recognize" \notin inflight

\* C3: every run of every processor ends with a ProcessOutput value and
\* never with an exception thrown out of process().
C3_NoExceptionLeavesProcess == result # "THROWN"

\* C5: once a checkpoint has found the cancellation flag set, no further
\* unit of work is started and the run returns PROCESSING_CANCELLED with no
\* output; in the OCR processor the session is terminated before the return.
C5_CancellationTakesPriority ==
    cancelSeenAt >= 0 =>
        /\ Len(units) = cancelSeenAt
        /\ Done => /\ result = "PROCESSING_CANCELLED"
                   /\ outputs = <<>>
                   /\ proc = "ocr" => tesseractWorker = Null

\* C4: in OCRProcessor.process a failure while rendering or recognizing
\* page k stays inside the page loop: the step that settles render or
\* recognize never ends the run and never enters the outer catch, it leaves
\* exactly one new entry for page k (text or error marker) and moves on to
\* the next page, which is started unless the run was cancelled; the entries
\* are in selection order, and a success outcome carries exactly one entry
\* per selected page.
C4_Entries ==
    proc = "ocr" =>
        /\ Len(textResults) = i
        /\ \A k \in 1..Len(textResults) : textResults[k].page = sel[k]
        /\ result = "SUCCESS" =>
               /\ Len(textResults) = Len(sel)
               /\ outputs = <<sel>>

C4_Step ==
    proc = "ocr" =>
        /\ pc \in {"render", "recognize"} =>
               /\ result' = "none"
               /\ pc' \in {pc, "recognize", "loop"}
               /\ pc' = "loop" =>
                      /\ i' = i + 1
                      /\ Len(textResults') = Len(textResults) + 1
                      /\ textResults'[i'].page = sel[i']
                      /\ textResults'[i'].kind \in {"text", "error"}
        /\ (pc = "loop" /\ pc' # "loop" /\ i < Len(sel) /\ ~cancelled) =>
               /\ pc' = "render"
               /\ units' = Append(units, sel[i + 1])

C6_ProgressMonotoneInRange ==
    \A k \in 1..Len(reports) :
        /\ reports[k].d > 0
        /\ Leq(Pct(0), reports[k])
        /\ Leq(reports[k], Pct(100))
        /\ k > 1 => Leq(reports[k - 1], reports[k])

C6_Witness ==
    /\ result = "SUCCESS"
    /\ Len(units) = 2
    /\ \E k \in 1..Len(reports) : reports[k].d = 2 /\ reports[k].n % 2 = 1
    /\ reports[Len(reports)] = Pct(100)

\* C7 as stated: every validation error (file count or missing options,
\* file type, page range, 'no valid pages' included) is returned before any
\* collaborator call, progress report or session start.
C7_ValidationBeforeAnyCall ==
    result \in {"INVALID_OPTIONS", "FILE_TYPE_INVALID", "INVALID_PAGE_RANGE"} =>
        /\ calls = <<>>
        /\ reports = <<>>
        /\ sess = "Uninitialized"

\* C7 amended: a file-count, missing-options or file-type error is returned
\* before any collaborator call and without a progress report or a session;
\* a page-range error ('no valid pages' included) is returned after the
\* library and the document were loaded and progress was reported (in OCR
\* after the session was started and terminated again), and before any unit
\* of work (page, range) is started.
C7_ValidationOrder ==
    /\ result \in {"INVALID_OPTIONS", "FILE_TYPE_INVALID"} =>
           /\ calls = <<>>
           /\ reports = <<>>
           /\ sess = "Uninitialized" /\ tesseractWorker = Null
    /\ result = "INVALID_PAGE_RANGE" =>
           /\ units = <<>> /\ copied = <<>> /\ textResults = <<>>
           /\ blobs = <<>> /\ outputs = <<>>
           /\ tesseractWorker = Null
           /\ \/ /\ proc = "split"
                 /\ calls = <<"loadPdfLib", "load">>
                 /\ reports = <<Pct(5), Pct(10), Pct(15)>>
              \/ /\ proc = "ocr"
                 /\ calls = <<"loadPdfjs", "createWorker", "getDocument", "terminate">>
                 /\ reports = <<Pct(5), Pct(10), Pct(20)>>
                 /\ sess = "Terminated"

C7_Witness ==
    /\ proc = "ocr" /\ result = "INVALID_PAGE_RANGE"
    /\ Len(pagesOpt.list) > 0 /\ totalPages > 0

\* C8: validatePageRanges returns null exactly when every range satisfies
\* 1 <= start <= end <= totalPages; otherwise its message names the 1-based
\* position of the first violating range in input order, and a bound that
\* range violates.
ValidRange(r, T) == 1 <= r.start /\ r.start <= r.end /\ r.end <= T

C8_ValidatePageRanges ==
    (proc = "split" /\ validationError # Unset) =>
        LET bad == {k \in 1..Len(ranges) : ~ValidRange(ranges[k], totalPages)}
            e == validationError
        IN  /\ (e = NoMsg) <=> (bad = {})
            /\ bad # {} =>
                  /\ e.range \in bad
                  /\ \A q \in bad : e.range <= q
                  /\ \/ e.text = "Start page must be at least 1."
                        /\ ranges[e.range].start < 1
                     \/ e.text = "End page cannot be less than start page."
                        /\ ranges[e.range].end < ranges[e.range].start
                     \/ e.text = "End page exceeds total pages."
                        /\ ranges[e.range].end > totalPages
                     \/ e.text = "Start page exceeds total pages."
                        /\ ranges[e.range].start > totalPages

C8_Witness ==
    /\ proc = "split" /\ Len(ranges) = 2
    /\ ranges[1].start > ranges[2].start
    /\ ValidRange(ranges[1], totalPages)
    /\ validationError = [text |-> "End page exceeds total pages.", range |-> 2]

\* C9: in a split run whose range list holds an out-of-range or inverted
\* range (anywhere in the list), no range is ever extracted and no output
\* document is built or returned, and once the ranges were validated (the
\* document was loaded) the run has returned INVALID_PAGE_RANGE.
C9_InvalidRangeRejectsAll ==
    (proc = "split" /\ nFiles = 1
        /\ \E k \in 1..Len(ranges) : ~ValidRange(ranges[k], totalPages)) =>
        /\ units = <<>> /\ copied = <<>> /\ blobs = <<>>
        /\ filenames = <<>> /\ outputs = <<>>
        /\ ~Includes(calls, "create") /\ ~Includes(calls, "copyPages")
        /\ result # "SUCCESS"
        /\ validationError # Unset =>
               /\ result = "INVALID_PAGE_RANGE"
               /\ message = validationError
        /\ (Done /\ Len(reports) >= 3) => result = "INVALID_PAGE_RANGE"

C9_Witness ==
    /\ proc = "split" /\ result = "INVALID_PAGE_RANGE"
    /\ Len(ranges) = 2
    /\ ValidRange(ranges[1], totalPages)
    /\ ~ValidRange(ranges[2], totalPages)

\* C10: for a range list accepted by validatePageRanges, every index passed
\* to copyPages lies in [0, totalPages), the k-th call is for the k-th range
\* of the input, and its indices ascend by one from start-1 to end-1.
C10_EmittedIndices ==
    proc = "split" =>
        /\ Len(copied) <= Len(ranges)
        /\ \A q \in 1..Len(copied) :
              /\ Len(copied[q]) = ranges[q].end - ranges[q].start + 1
              /\ copied[q][1] = ranges[q].start - 1
              /\ copied[q][Len(copied[q])] = ranges[q].end - 1
              /\ \A k \in 1..Len(copied[q]) :
                    /\ copied[q][k] >= 0 /\ copied[q][k] < totalPages
                    /\ k > 1 => copied[q][k] = copied[q][k - 1] + 1

C10_Witness ==
    /\ proc = "split" /\ result = "SUCCESS"
    /\ Len(copied) = 2
    /\ ranges[1].start > ranges[2].start
    /\ Len(copied[2]) = 2

\* The 0-based page index that the k-th started unit asked the document
\* model or the rasterizer for (text colour and OCR ask by page number).
RequestedIndex(k) == IF proc \in {"text", "ocr"} THEN units[k] - 1 ELSE units[k]

\* The 0-based indices of the listed numbers that lie in 1..totalPages.
InRangeListed ==
    {pagesOpt.list[k] - 1 : k \in {n \in 1..Len(pagesOpt.list) :
                                     pagesOpt.list[n] >= 1 /\ pagesOpt.list[n] <= totalPages}}

\* The 0-based indices of the pages the operation's effect was applied to.
AppliedIndices ==
    IF proc = "ocr" THEN {textResults[k].page - 1 : k \in 1..Len(textResults)}
    ELSE IF proc = "text" THEN {applied[k] - 1 : k \in 1..Len(applied)}
    ELSE {applied[k] : k \in 1..Len(applied)}

PageSelected == proc \in {"bg", "remove", "text", "ocr"}

\* C11: in background colour, text colour, remove annotations and OCR, for
\* every explicit page-number list, no page index outside [0, totalPages) is
\* ever requested from the document model or the rasterizer, and a success
\* has applied the operation exactly to the listed numbers in 1..totalPages
\* (so the out-of-range numbers were dropped and did not fail the run).
C11_OutOfRangeFilteredSilently ==
    (PageSelected /\ nFiles = 1 /\ ~pagesOpt.all /\ Len(pagesOpt.list) > 0) =>
        /\ \A k \in 1..Len(units) : PageExists(RequestedIndex(k), totalPages)
        /\ result = "SUCCESS" => AppliedIndices = InRangeListed
        /\ (Done /\ InRangeListed # {} /\ ~cancelled /\ Len(units) > 0
               /\ ~PageExists(RequestedIndex(Len(units)), totalPages))
              => result # "PROCESSING_FAILED"

\* C12: in every page-selected operation no page is processed (rendered,
\* recognized, recoloured, stripped) more than once in one run, also when
\* the explicit list repeats a number.
C12_NoPageProcessedTwice ==
    PageSelected => \A p \in PageVals : Count(units, p) <= 1

\* C13: when page resolution in OCRProcessor.process yields an empty list,
\* the run returns INVALID_PAGE_RANGE 'No valid pages', has started no
\* render and no recognition, and has terminated the session (once) before
\* it returned.
C13_NoValidPages ==
    (proc = "ocr" /\ validationError \notin {Unset, NoMsg}) =>
        /\ sel = <<>> /\ units = <<>> /\ textResults = <<>>
        /\ ~Includes(calls, "render") /\ ~Includes(calls, "recognize")
        /\ Done =>
               /\ result = "INVALID_PAGE_RANGE"
               /\ message = Msg("No valid pages to OCR.")
               /\ tesseractWorker = Null /\ sess = "Terminated"
               /\ Count(calls, "terminate") = 1

\* C14: in split, background colour, text colour, remove annotations, form
\* creator and image-to-PDF, a success outcome implies that every item of
\* the job (range, page, field, image) was processed without failure.
C14_SuccessMeansEveryItemProcessed ==
    (proc # "ocr" /\ result = "SUCCESS") =>
        /\ proc = "split" => Len(blobs) = Len(ranges) /\ Len(units) = Len(ranges)
        /\ proc = "bg" => Len(units) = totalPages
        /\ proc = "remove" => applied = sel
        /\ proc = "text" => applied = sel /\ Len(blobs) = Len(sel)
        /\ proc = "form" => applied = units
        /\ proc = "image" => Len(applied) = nFiles

\* C16: within one run of any processor at most one collaborator call is in
\* flight at any time, and item N+1 is started only after item N completed.
C16_OneCallInFlight ==
    /\ Cardinality(inflight) <= 1
    /\ Len(units) <= i + 1

\* C15: of two runs of process() on one OCRProcessor instance, each run
\* recognizes only with the session it created and terminates exactly that
\* session; no run overwrites the other's session in the field, and when
\* both runs have ended every created session has been terminated.
C15_RunsKeepOwnSession ==
    /\ \A r \in Runs :
          /\ run[r].used \subseteq {r}
          /\ run[r].closed \subseteq {r}
          /\ run[r].over = {}
          /\ run[r].pc = "done" => (run[r].own /\ run[r].closed = {r})
    /\ (\A r \in Runs : run[r].pc = "done") =>
           \A r \in Runs : \E q \in Runs : r \in run[q].closed

\* The number of items of the job, and the positions whose next step runs a
\* checkpoint before the next piece of work.
Items ==
    CASE proc = "split" -> Len(ranges)
      [] proc = "bg" -> totalPages
      [] proc = "form" -> Len(fields)
      [] proc = "image" -> nFiles
      [] OTHER -> Len(sel)

AtCheckpoint ==
    \/ pc = "loop" /\ i < Items
    \/ proc = "ocr" /\ pc = "loadPdfjs"
    \/ proc = "split" /\ pc \in {"loadPdfLib", "load"}
    \/ proc = "image" /\ pc = "loadPdfLib"

\* C17: the cancellation flag is observed only by a checkpoint that stands
\* before a unit of work: setting the flag changes nothing else (the call in
\* flight is not interrupted), a set flag is found by the checkpoint at the
\* head of the next item before that item starts, and no step elsewhere
\* (during the last unit, after the loop, while saving) observes it or
\* returns PROCESSING_CANCELLED, so a run whose flag was set only after its
\* last checkpoint can still return success.
C17_Observed ==
    /\ result = "PROCESSING_CANCELLED" => (cancelSeenAt >= 0 /\ cancelled)
    /\ cancelSeenAt >= 0 => cancelled

C17_Step ==
    /\ (cancelled' # cancelled) =>
           /\ cancelled' /\ inflight # {}
           /\ UNCHANGED <<ctl, reports, ocr, work>>
    /\ (cancelSeenAt' # cancelSeenAt) =>
           /\ AtCheckpoint /\ cancelled
           /\ cancelSeenAt = -1 /\ cancelSeenAt' = Len(units)
           /\ units' = units
    /\ (result' = "PROCESSING_CANCELLED" /\ result = "none") =>
           (AtCheckpoint \/ pc = "termCancel")
    /\ (pc = "loop" /\ i < Items /\ cancelled /\ pc' # pc) =>
           /\ cancelSeenAt' = Len(units)
           /\ units' = units

C17_PolledAtCheckpoints == []C17_Observed /\ [][C17_Step]_vars

C17_Witness ==
    /\ result = "SUCCESS" /\ cancelled /\ cancelSeenAt = -1
    /\ Len(units) = 2 /\ proc \in {"split", "ocr", "bg"}

\* C18: a successful split returns one output document and one filename per
\* range, in input order, and output q holds exactly the end - start + 1
\* source pages start..end of range q in ascending order.
C18_OneOutputPerRange ==
    (proc = "split" /\ result = "SUCCESS") =>
        /\ Len(outputs) = Len(ranges)
        /\ Len(filenames) = Len(ranges)
        /\ \A q \in 1..Len(ranges) :
              /\ Len(outputs[q]) = ranges[q].end - ranges[q].start + 1
              /\ \A k \in 1..Len(outputs[q]) :
                    outputs[q][k] + 1 = ranges[q].start + (k - 1)
              /\ filenames[q] =
                     generateSplitFilename(FileName, ranges[q], q, Len(ranges))

C18_Witness ==
    /\ proc = "split" /\ result = "SUCCESS"
    /\ totalPages = 2
    /\ ranges = <<[start |-> 1, end |-> 2], [start |-> 2, end |-> 2]>>
    /\ Len(outputs[1]) = 2 /\ Len(outputs[2]) = 1
    /\ filenames = <<"report_part1_pages_1-2.pdf", "report_part2_page_2.pdf">>

\* The pixel offsets the pass has gone through, and the brightness test on
\* the pixel as it was before the pass.
Passed == {o \in 0..(Len(orig) - 1) : o % 4 = 0 /\ o < j}
Darker(o) == orig[o + 1] + orig[o + 2] + orig[o + 3] < 3 * threshold
Lighter(o) == orig[o + 1] + orig[o + 2] + orig[o + 3] > 3 * threshold

\* C19: the recolour pass writes the target colour to a pixel's R, G, B if
\* and only if its brightness (R+G+B)/3 is strictly less than the threshold
\* in dark mode, or strictly greater in light mode; a pixel whose brightness
\* equals the threshold is written in neither mode.
C19_RecolorPredicate ==
    \A o \in Passed :
        /\ (o \in written) <=> (IF mode = "dark" THEN Darker(o) ELSE Lighter(o))
        /\ (~Darker(o) /\ ~Lighter(o)) => o \notin written
        /\ o \in written =>
               /\ data[o + 1] = ToUint8Clamp(color.r)
               /\ data[o + 2] = ToUint8Clamp(color.g)
               /\ data[o + 3] = ToUint8Clamp(color.b)

C19_Witness ==
    /\ j = Len(data) /\ Len(data) = 8
    /\ threshold = 128 /\ mode = "light"
    /\ orig[1] = 128 /\ orig[2] = 128 /\ orig[3] = 128
    /\ orig[7] = 129
    /\ written = {4}

\* C20: the recolour pass leaves the alpha byte of every pixel unchanged,
\* leaves all four bytes of a pixel that does not satisfy the mode's test
\* unchanged, and keeps the buffer's length (so every pixel its position).
C20_RecolorFrame ==
    /\ Len(data) = Len(orig)
    /\ \A o \in {n \in 0..(Len(orig) - 1) : n % 4 = 0} :
          /\ data[o + 4] = orig[o + 4]
          /\ ~(IF mode = "dark" THEN Darker(o) ELSE Lighter(o)) =>
                 \A c \in 1..4 : data[o + c] = orig[o + c]
          /\ o \notin Passed => \A c \in 1..4 : data[o + c] = orig[o + c]

C20_Witness ==
    /\ j = Len(data) /\ Len(data) = 8
    /\ mode = "dark" /\ threshold = 128
    /\ written = {0}
    /\ orig[4] = 77 /\ data[4] = 77 /\ data[1] # orig[1]
    /\ orig[8] = 0

\* The geometry call has returned the placement.
Placed == fn = "addImageToDocument" /\ ret.at = "placed"

\* C21: with scale-to-fit enabled calculateImagePlacement never upscales:
\* the placement width is at most the image width and the placement height
\* at most the image height.
C21_NeverUpscales ==
    (Placed /\ args.options.scaleToFit) =>
        /\ Leq(ret.place.width, Frac(args.imageWidth, 1))
        /\ Leq(ret.place.height, Frac(args.imageHeight, 1))

C21_Witness ==
    /\ Placed /\ args.options.scaleToFit
    /\ args.imageWidth = 2 /\ args.imageHeight = 4
    /\ args.options.pageSize.name = "custom"
    /\ ret.page.pageWidth = 10 /\ ret.page.pageHeight = 10
    /\ args.options.margin = 1
    /\ ret.place.width = Frac(2, 1) /\ ret.place.height = Frac(4, 1)

FillsAvailable ==
    /\ args.imageWidth = ret.page.pageWidth - 2 * args.options.margin
    /\ args.imageHeight = ret.page.pageHeight - 2 * args.options.margin

\* C23: when the image size equals the available area exactly the scale is
\* 1 (the placement has the size of the image) and the position is (margin,
\* margin) with centerImage true as with centerImage false.
C23_ExactFitAtMargin ==
    (Placed /\ FillsAvailable) =>
        /\ FEq(ret.place.width, Frac(args.imageWidth, 1))
        /\ FEq(ret.place.height, Frac(args.imageHeight, 1))
        /\ FEq(ret.place.x, Frac(args.options.margin, 1))
        /\ FEq(ret.place.y, Frac(args.options.margin, 1))

C23_Witness ==
    /\ Placed /\ FillsAvailable
    /\ args.options.scaleToFit /\ args.options.centerImage
    /\ args.options.pageSize.name = "custom"
    /\ args.options.margin = 1
    /\ args.imageWidth = 4 /\ args.imageHeight = 6
    /\ ret.page.pageWidth = 6 /\ ret.page.pageHeight = 8
    /\ ret.place.x = Frac(8, 8) /\ ret.place.y = Frac(8, 8)

\* The page dimensions have been computed.
PageComputed == fn = "addImageToDocument" /\ ret.at \in {"page", "placed"}
BaseOf == BasePageSize(args.imageWidth, args.imageHeight, args.options)
NonFit == args.options.pageSize.name # "FIT"

\* C24: with the FIT preset the page is image width + 2*margin by image
\* height + 2*margin for every orientation setting (the orientation step
\* never swaps a FIT page), and the image is placed unscaled at (margin,
\* margin).
C24_FitPageIsImagePlusMargins ==
    (PageComputed /\ args.options.pageSize.name = "FIT") =>
        /\ ret.page.pageWidth = args.imageWidth + 2 * args.options.margin
        /\ ret.page.pageHeight = args.imageHeight + 2 * args.options.margin
        /\ Placed =>
               /\ FEq(ret.place.width, Frac(args.imageWidth, 1))
               /\ FEq(ret.place.height, Frac(args.imageHeight, 1))
               /\ FEq(ret.place.x, Frac(args.options.margin, 1))
               /\ FEq(ret.place.y, Frac(args.options.margin, 1))

\* C25: for every non-fit base page size, orientation 'portrait' gives
\* pageWidth <= pageHeight and 'landscape' gives pageWidth >= pageHeight;
\* the dimensions are swapped only when needed and the result is the base
\* pair or its swap.
C25_ForcedOrientation ==
    (PageComputed /\ NonFit) =>
        /\ args.options.orientation = "portrait" =>
               /\ ret.page.pageWidth <= ret.page.pageHeight
               /\ BaseOf.pageWidth <= BaseOf.pageHeight => ret.page = BaseOf
        /\ args.options.orientation = "landscape" =>
               /\ ret.page.pageWidth >= ret.page.pageHeight
               /\ BaseOf.pageWidth >= BaseOf.pageHeight => ret.page = BaseOf
        /\ ret.page \in {BaseOf, Swap(BaseOf)}

C25_Witness ==
    /\ PageComputed
    /\ args.options.pageSize.name = "A4"
    /\ args.options.orientation = "landscape"
    /\ ret.page = [pageWidth |-> 84189, pageHeight |-> 59528]

ImageIsLandscape == args.imageWidth > args.imageHeight
PageIsLandscape == ret.page.pageWidth > ret.page.pageHeight

\* C26 as stated: with orientation 'auto' and any non-fit base page size, a
\* named preset or an explicit width and height, the page is landscape
\* exactly when the image is landscape.
C26_AutoMatchesImage ==
    (PageComputed /\ NonFit /\ args.options.orientation = "auto") =>
        (PageIsLandscape <=> ImageIsLandscape)

\* C26 amended: with orientation 'auto' and a named preset other than FIT
\* the page is landscape exactly when the image is landscape; an explicit
\* width and height is returned as given, whatever the image.
C26_AutoMatchesImageForPresets ==
    (PageComputed /\ NonFit /\ args.options.orientation = "auto") =>
        IF IsPreset(args.options.pageSize)
        THEN /\ PageIsLandscape <=> ImageIsLandscape
             /\ ret.page \in {BaseOf, Swap(BaseOf)}
        ELSE ret.page = [pageWidth |-> args.options.pageSize.width,
                         pageHeight |-> args.options.pageSize.height]

C26_Witness ==
    /\ PageComputed /\ args.options.orientation = "auto"
    /\ args.options.pageSize.name = "LETTER"
    /\ args.imageWidth = 10 /\ args.imageHeight = 4
    /\ ret.page = [pageWidth |-> 79200, pageHeight |-> 61200]

EveryNReturned ==
    fn = "createSplitEveryNPages" /\ ret.at \in {"returned", "validated", "copied"}
PagesIn(r) == r.end - r.start + 1

\* C27: for totalPages >= 0 and n >= 1 the ranges createSplitEveryNPages
\* returns partition 1..totalPages: the first starts at 1, each next one
\* starts at the previous end + 1, every range but the last has exactly n
\* pages, the last has between 1 and n pages and ends at totalPages; for
\* totalPages = 0 the list is empty.
C27_EveryNPartitions ==
    EveryNReturned =>
        LET rs == ret.ranges
            len == Len(rs)
        IN  /\ (len = 0) <=> (args.totalPages = 0)
            /\ len > 0 =>
                   /\ rs[1].start = 1
                   /\ rs[len].end = args.totalPages
                   /\ PagesIn(rs[len]) \in 1..args.n
            /\ \A k \in 1..(len - 1) :
                   /\ PagesIn(rs[k]) = args.n
                   /\ rs[k + 1].start = rs[k].end + 1

C27_Witness ==
    /\ EveryNReturned
    /\ args = [totalPages |-> 10, n |-> 3]
    /\ ret.ranges = <<[start |-> 1, end |-> 3], [start |-> 4, end |-> 6],
                      [start |-> 7, end |-> 9], [start |-> 10, end |-> 10]>>

NamesCall == fn = "generateSplitFilename"
NamesReturned == NamesCall /\ ret.at = "returned"

\* The part of a name before its last dot, the whole name if it has none.
BeforeLastDot(name) ==
    IF \A k \in 1..Len(name) : name[k] # "."
    THEN name
    ELSE CHOOSE p \in {SubSeq(name, 1, k) : k \in 0..Len(name)} :
             /\ Len(p) < Len(name)
             /\ name[Len(p) + 1] = "."
             /\ \A m \in (Len(p) + 2)..Len(name) : name[m] # "."

PageSuffix(r) ==
    IF r.start = r.end
    THEN "_page_" \o ToString(r.start) \o ".pdf"
    ELSE "_pages_" \o ToString(r.start) \o "-" \o ToString(r.end) \o ".pdf"

\* C28: generateSplitFilename strips the original name from its last dot on
\* and returns base + '_page_' + start + '.pdf' for a single-page range or
\* base + '_pages_' + start + '-' + end + '.pdf' for a multi-page range when
\* totalRanges = 1, with '_part' + rangeIndex (1-based) between the base and
\* the page suffix when totalRanges > 1.
C28_SplitFilenameFormat ==
    NamesCall =>
        \A q \in 1..Len(ret.outputFilenames) :
            ret.outputFilenames[q] =
                Text(BeforeLastDot(args.originalName))
                \o (IF Len(args.ranges) = 1 THEN "" ELSE "_part" \o ToString(q))
                \o PageSuffix(args.ranges[q])

C28_Witness ==
    /\ NamesReturned
    /\ args.originalName = FileName
    /\ args.ranges = <<[start |-> 2, end |-> 2], [start |-> 1, end |-> 3]>>
    /\ ret.outputFilenames =
           <<"report_part1_page_2.pdf", "report_part2_pages_1-3.pdf">>

\* C29: within one split the output names are collision-free and
\* deterministic: for every original name and every validated range list,
\* duplicate and overlapping ranges included, the names at two different
\* positions differ, and each name is a function of the original name, the
\* range, its position and the number of ranges.
C29_FilenamesCollisionFree ==
    NamesCall =>
        /\ \A q1, q2 \in 1..Len(ret.outputFilenames) :
               q1 # q2 => ret.outputFilenames[q1] # ret.outputFilenames[q2]
        /\ \A q \in 1..Len(ret.outputFilenames) :
               ret.outputFilenames[q] =
                   generateSplitFilename(args.originalName, args.ranges[q], q,
                                         Len(args.ranges))

C29_Witness ==
    /\ NamesReturned
    /\ args.originalName = <<"r", ".", "r">>
    /\ args.ranges = <<[start |-> 1, end |-> 2], [start |-> 1, end |-> 2]>>
    /\ ret.outputFilenames = <<"r_part1_pages_1-2.pdf", "r_part2_pages_1-2.pdf">>

ParseCall == fn = "parsePageRanges"
ParseReturned == ParseCall /\ ret.at = "returned"

\* A token that is an integer, and a token that is two integers around '-'.
IsInteger(tok) == tok # <<>> /\ \A k \in 1..Len(tok) : IsDigit(tok[k])
IsPair(tok) ==
    \E k \in 1..Len(tok) :
        /\ tok[k] = "-"
        /\ IsInteger(SubSeq(tok, 1, k - 1))
        /\ IsInteger(SubSeq(tok, k + 1, Len(tok)))
PairOf(tok) ==
    LET k == CHOOSE k \in 1..Len(tok) : tok[k] = "-"
    IN  [start |-> Decimal(SubSeq(tok, 1, k - 1)),
         end |-> Decimal(SubSeq(tok, k + 1, Len(tok)))]
HasNoDigit(tok) == \A k \in 1..Len(tok) : ~IsDigit(tok[k])
WellFormed(tok) == IsInteger(tok) \/ IsPair(tok)

C30_Ranges ==
    ParseCall =>
        /\ Len(ret.parts) <= Count(args.rangeString, ",") + 1
        /\ Len(ret.ranges) <= ret.k /\ ret.k <= Len(ret.parts)
        /\ ret.at = "returned" =>
               /\ ret.k = Len(ret.parts)
               /\ Cardinality({k \in 1..Len(ret.parts) : WellFormed(ret.parts[k])})
                      <= Len(ret.ranges)

C30_Step ==
    (ParseCall /\ ret.at = "loop" /\ ret.k < Len(ret.parts)) =>
        LET tok == ret.parts[ret.k + 1]
        IN  /\ ret'.at = "loop"
            /\ ret'.k = ret.k + 1
            /\ IsInteger(tok) =>
                   ret'.ranges = Append(ret.ranges, [start |-> Decimal(tok),
                                                     end |-> Decimal(tok)])
            /\ IsPair(tok) => ret'.ranges = Append(ret.ranges, PairOf(tok))
            /\ HasNoDigit(tok) => ret'.ranges = ret.ranges
            /\ \/ ret'.ranges = ret.ranges
               \/ /\ Len(ret'.ranges) = Len(ret.ranges) + 1
                  /\ SubSeq(ret'.ranges, 1, Len(ret.ranges)) = ret.ranges

\* C30: parsePageRanges turns a comma-separated string into ranges in the
\* order of its tokens: a token that is an integer p adds {p,p}, a token
\* 'a-b' adds {a,b}, a token that does not parse as integers adds nothing
\* and does not end the parse, so every well-formed token before and after
\* it gives its range and there are never more ranges than tokens.
C30_ParseSkipsMalformed == []C30_Ranges /\ [][C30_Step]_vars

C30_Witness ==
    /\ ParseReturned
    /\ args.rangeString = <<"1", ",", "x", ",", "1">>
    /\ ret.parts = <<<<"1">>, <<"x">>, <<"1">>>>
    /\ ret.ranges = <<[start |-> 1, end |-> 1], [start |-> 1, end |-> 1]>>

Is100(p) == p.n = 100 * p.d
Reported100 == \E k \in 1..Len(reports) : Is100(reports[k])

\* C31: in every processor 100 is reported only on a run that returns a
\* success outcome, and every success outcome is immediately preceded by
\* the report of 100: from the state in which 100 is reported on the run
\* has returned success, 100 is the last report and it is reported once; a
\* run that ends with any other outcome has not reported 100.
C31_HundredOnlyOnSuccess ==
    /\ Reported100 => result = "SUCCESS"
    /\ result = "SUCCESS" =>
           /\ reports # <<>>
           /\ Is100(reports[Len(reports)])
           /\ \A k \in 1..(Len(reports) - 1) : ~Is100(reports[k])

C31_Witness ==
    /\ proc = "ocr" /\ outputFormat # "text"
    /\ result = "SUCCESS"
    /\ Len(reports) >= 2
    /\ reports[Len(reports)] = Pct(100)
    /\ reports[Len(reports) - 1] = Pct(95)

SessionStarted == \E k \in 1..Len(calls) : calls[k] = "createWorker"

C32_Order ==
    proc = "ocr" =>
        /\ SessionStarted => nFiles = 1 /\ typeOk /\ calls[1] = "loadPdfjs"
        /\ ~SessionStarted => sess = "Uninitialized" /\ tesseractWorker = Null
        /\ result \in {"INVALID_OPTIONS", "FILE_TYPE_INVALID"} => ~SessionStarted
        /\ (result = "PROCESSING_CANCELLED" /\ calls = <<"loadPdfjs">>) =>
               sess = "Uninitialized"
        /\ \A k \in 1..Len(calls) :
               calls[k] = "recognize" =>
                   /\ \E a \in 1..(k - 1) : calls[a] = "createWorker"
                   /\ \A b \in 1..(k - 1) : calls[b] # "terminate"
        /\ "recognize" \in inflight => sess = "Recognizing"

\* The step that starts the session is taken after the first checkpoint
\* found the run not cancelled.
C32_Step ==
    (proc = "ocr" /\ ~SessionStarted /\ SessionStarted') =>
        /\ pc = "loadPdfjs" /\ ~cancelled
        /\ calls = <<"loadPdfjs">>
        /\ cancelSeenAt = -1

\* C32: in OCRProcessor.process the session is started only after the
\* file-count and file-type checks have passed and the first cancellation
\* checkpoint was passed uncancelled; a run that ends with INVALID_OPTIONS,
\* FILE_TYPE_INVALID or with cancellation at the first checkpoint never
\* creates a session, and every recognize call comes after the run's
\* session start and before its terminate.
C32_SessionStartOrder == []C32_Order /\ [][C32_Step]_vars

C32_Witness ==
    /\ proc = "ocr" /\ result = "SUCCESS"
    /\ calls = <<"loadPdfjs", "createWorker", "getDocument", "render",
                 "recognize", "terminate">>
    /\ sess = "Terminated"

EveryNLooping == fn = "createSplitEveryNPages" /\ ret.at = "loop"

\* C33: createSplitEveryNPages(totalPages, n) terminates and returns a
\* finite range list for every totalPages >= 0 and every integer n, n = 0
\* and negative n included: the call never ends by throwing, it returns at
\* most totalPages ranges, and every iteration of the loop moves start
\* towards the loop's exit (start grows, while start <= totalPages is the
\* condition and totalPages is fixed).
C33_Finite ==
    fn = "createSplitEveryNPages" =>
        /\ ret.at # "thrown"
        /\ Len(ret.ranges) <= args.totalPages

C33_Progress ==
    (EveryNLooping /\ ret'.at = "loop") => ret'.start > ret.start

C33_EveryNTerminates == []C33_Finite /\ [][C33_Progress]_vars

\* Where source page p (0-based) has been copied to: output and position.
CopiesOf(p) ==
    {<<k, m>> \in (1..Len(ret.outputs)) \X (1..MaxTotalPages + 1) :
         m <= Len(ret.outputs[k]) /\ ret.outputs[k][m] = p}
AllCopies ==
    {<<k, m>> \in (1..Len(ret.outputs)) \X (1..MaxTotalPages + 1) :
         m <= Len(ret.outputs[k])}

\* C34: for totalPages >= 1 and n >= 1 the list createSplitEveryNPages
\* returns (createSplitEveryPage is n = 1) is accepted by validatePageRanges
\* against the same totalPages, and the outputs of the split made from it
\* hold totalPages pages in all, every source page in exactly one output.
C34_GeneratorPassesValidator ==
    (fn = "createSplitEveryNPages" /\ args.totalPages >= 1 /\ args.n >= 1) =>
        /\ ret.at \in {"validated", "copied"} => ret.validationError = NoMsg
        /\ ret.at = "copied" =>
               /\ Len(ret.outputs) = Len(ret.ranges)
               /\ Cardinality(AllCopies) = args.totalPages
               /\ \A p \in 0..(args.totalPages - 1) : Cardinality(CopiesOf(p)) = 1

C34_Witness ==
    /\ fn = "createSplitEveryNPages" /\ ret.at = "copied"
    /\ args = [totalPages |-> 5, n |-> 2]
    /\ ret.validationError = NoMsg
    /\ ret.outputs = <<<<0, 1>>, <<2, 3>>, <<4>>>>

\* The source pages (1-based) of the pages of the output document, in the
\* order of the output.
OutputPages ==
    IF proc = "bg" THEN [k \in 1..Len(outputs[1]) |-> outputs[1][k] + 1]
    ELSE outputs[1]

\* C35: in background colour and text colour, selecting a subset of the
\* pages only narrows where the effect is applied: the output of a
\* successful run has exactly totalPages pages in source order, and the
\* effect is on selected pages only.
C35_SubsetKeepsAllPages ==
    (proc \in {"bg", "text"} /\ result = "SUCCESS") =>
        /\ OutputPages = Range1(totalPages)
        /\ pagesOpt.all \/ AppliedIndices \subseteq InRangeListed

SecondPass == proc = "text" /\ once # <<>>

\* C36: the recolour pass is idempotent on whole buffers: for every buffer,
\* mode, threshold and target colour, the pass applied to the buffer the
\* first pass produced leaves every byte as it is, at every pixel of the
\* second pass and at its end, whether or not the target colour itself
\* satisfies the mode's predicate.
C36_RecolorIdempotent == SecondPass => data = once[1]

\* The second pass has ended, the first pass had changed the first pixel
\* and the colour written satisfies the predicate, so that the second pass
\* has written it again.
C36_Witness ==
    /\ SecondPass /\ j = Len(data) /\ Len(data) = 8
    /\ mode = "dark" /\ threshold = 128
    /\ color = [r |-> 0, g |-> 0, b |-> 0]
    /\ orig[1] = 127 /\ data[1] = 0
    /\ shouldChange(TRUE, data[1], data[2], data[3], threshold)
    /\ data = once[1] /\ data # orig

=============================================================================
